---- MODULE Spec2Model ----
(***************************************************************************)
(* State-machine model of sftp_dev_uploader: the watcher thread, the main  *)
(* thread that forwards batches, the upload actor (dispatcher) with its    *)
(* pool of SFTP sessions and per-batch worker threads, the remote file     *)
(* system those sessions talk to, and the progress actor (sink).           *)
(*                                                                         *)
(* Paths are sequences of components; an absolute path starts with the     *)
(* root component "/" (as std::path::Path::components yields RootDir).     *)
(* Rust indexes sessions, chunks and bars from 0; the model from 1.        *)
(***************************************************************************)
EXTENDS Integers, Sequences, FiniteSets, Bags, TLC

\* ---------------------------------------------------------------- bounds
MaxConn == 2        \* largest connection_count tried
MaxBatches == 2     \* batches the watcher emits in one run
MaxFiles == 2       \* local files the watcher can report
MaxSplitLen == 10   \* longest list handed to split_to_n_chunks on its own
MaxSplitN == 6      \* largest n handed to split_to_n_chunks on its own
MaxEvents == 2      \* events in one action of the watcher's handler
MaxCalls == 3       \* calls made on one session of the client
MaxFaults == 1      \* environment faults injected in one run
MaxPairLen == 5     \* longest upload-pair argument parsed on its own

\* ------------------------------------------------------- the environment
\* local base dir (upload_pair.source, canonical) and remote target dir
LocalBase == <<"/", "w">>
TargetDir == <<"t">>
\* the server's realpath(".") for every session (same host, same user)
InitialCwd == <<"/", "h">>
\* local files below LocalBase that the watcher can report
FileList == << <<"/", "w", "x">>, <<"/", "w", "a", "z">>, <<"/", "w", "y">>,
               <<"/", "w", "a", "v">> >>
Files == { FileList[n] : n \in 1..MaxFiles }

None == "None"
Ok(v) == [ok |-> TRUE, val |-> v]
Err(e) == [ok |-> FALSE, err |-> e]

\* ------------------------------------------------------------ std::path
is_relative(p) == Len(p) = 0 \/ p[1] # "/"

path_join(p, q) == IF is_relative(q) THEN p \o q ELSE q

path_parent(p) ==
    IF Len(p) = 0 \/ p = <<"/">> THEN None ELSE SubSeq(p, 1, Len(p) - 1)

starts_with(p, base) ==
    Len(base) <= Len(p) /\ SubSeq(p, 1, Len(base)) = base

strip_prefix(p, base) ==
    IF starts_with(p, base)
    THEN Ok(SubSeq(p, Len(base) + 1, Len(p)))
    ELSE Err("StripPrefixError")

IsPrefixSeq(s, t) == Len(s) <= Len(t) /\ SubSeq(t, 1, Len(s)) = s

\* ------------------------------------------------- sftp/local_utils.rs
compute_relative_path_from_local(input_path, base_path) ==
    IF is_relative(input_path)
    THEN Err("InvalidInput")
    ELSE strip_prefix(input_path, base_path)

\* ------------------------------------------------- sftp/sftp_client.rs
\* a client that hands a relative remote path on as it came
canonicalize_remote_verbatim(cwd, input_path) == input_path

canonicalize_remote(cwd, input_path) ==
    IF is_relative(input_path) THEN path_join(cwd, input_path) ELSE input_path

local_to_remote_path_with_bases(cwd, local_path, local_base, remote_base) ==
    LET remote_absolute == canonicalize_remote(cwd, remote_base)
        relative_local == compute_relative_path_from_local(local_path, local_base)
    IN  IF relative_local.ok
        THEN Ok(path_join(remote_absolute, relative_local.val))
        ELSE Err("LocalPathError")

\* ----------------------------------------------------------- utils/mod.rs
CeilDiv(a, b) == (a + b - 1) \div b

Min(a, b) == IF a <= b THEN a ELSE b

RECURSIVE split_loop(_, _)
split_loop(input, i) ==
    IF i = 0 THEN <<>>
    ELSE LET chunk_size == CeilDiv(Len(input), i)
             take == Min(chunk_size, Len(input))
         IN  <<SubSeq(input, 1, take)>>
                 \o split_loop(SubSeq(input, take + 1, Len(input)), i - 1)

\* chunks of one fixed size len / n, the remainder left behind
split_fixed_floor(array, n) ==
    [c \in 1..n |->
        SubSeq(array, (c - 1) * (Len(array) \div n) + 1,
                      c * (Len(array) \div n))]

\* element k of the list goes to chunk ((k - 1) mod n) + 1
split_round_robin(array, n) ==
    [c \in 1..n |->
        LET idx == { k \in 1..Len(array) : (k - 1) % n = c - 1 }
        IN  [j \in 1..Cardinality(idx) |-> array[c + (j - 1) * n]]]

\* every chunk cut with the one size ceil(len / n)
split_ceil_fixed(array, n) ==
    [c \in 1..n |->
        SubSeq(array, Min((c - 1) * CeilDiv(Len(array), n), Len(array)) + 1,
                      Min(c * CeilDiv(Len(array), n), Len(array)))]

split_to_n_chunks(array, n) == split_loop(array, n)

\* ------------------------------------------------------- batch universe
RECURSIVE InjSeqs(_, _)
InjSeqs(S, n) ==
    IF n = 0 THEN { <<>> }
    ELSE LET shorter == InjSeqs(S, n - 1)
         IN  shorter \cup
             { Append(s, f) : s \in { t \in shorter : Len(t) = n - 1 }, f \in S }
\* batches collected without the HashSet: a path may come twice
Batches_repeating == InjSeqs(Files, Cardinality(Files))

\* a batch is a HashSet collected into a Vec: no path twice, any order
Batches ==
    { b \in InjSeqs(Files, Cardinality(Files)) :
        \A i, j \in 1..Len(b) : i # j => b[i] # b[j] }

SeqToSet(s) == { s[i] : i \in 1..Len(s) }

\* ================================================================ state
VARIABLES
    upload_initial,     \* --upload-initial: scan the watch directory first
    connection_count,   \* the --connections argument (u8)
    watcher,            \* "init" | "running" | "quitting" | "stopped":
                        \*   WatchActor
                        \*   and the senders of the batch channel
    emitted,            \* history: every batch the watcher sent, in order
    rx_files_to_upload, \* channel watcher -> main (main.rs)
    mainPc,             \* "start" | "connect" | "recv" | "exited"
    msg_rx,             \* channel UploadActorHandle.tx -> UploadActor.msg_rx
    received,           \* history: every batch run_self received, in order
    actorPc,            \* "unborn" | "recv" | "lock" | "precreate" | "ensure"
                        \*   | "spawn" | "join" | "panicked"
    files_to_upload,    \* the batch actor_upload_files is working on
    remote_paths,       \* remote dirs of the batch not yet ensured
    chunks,             \* result of split_to_n_chunks for the batch
    tasks,              \* spawn results so far: "Ok" | "Err" per chunk
    joinIdx,            \* next task the join loop looks at
    lockHolder,         \* per session mutex: "free" | "actor" | "worker"
    poisoned,           \* per session mutex: poisoned by a panic under lock
    remote_cwd,         \* per session: RuntimeProps.remote_cwd
    remote_dir_cache,   \* per session: keys of RuntimeProps.remote_dir_cache
    ens,                \* per session: position inside ensure_dir_remote
    workers,            \* per session index: the worker thread of the batch
    remoteDirs,         \* server: paths that are directories
    remoteFiles,        \* server: paths that are regular files
    sinkAlive,          \* ProgressActor thread still receiving
    log,                \* lines written (stdout, stderr or progress sink)
    mkdirLog,           \* history: every mkdir request sent to the server
    joinedH,            \* history: <<batch, i>> of every task join returned
    ensure_calls,       \* history: bag of the paths Step 3.2 has handed to
                        \*   ensure_dir_remote_cached for the current batch
    batchFailed,        \* history: some operation of the batch failed
    faults,             \* environment faults injected so far
    call,               \* a function called on its own: its name and arguments
    ret                 \* <<v>> once call has returned v, <<>> before

vars == << upload_initial, connection_count, watcher, emitted,
           rx_files_to_upload, mainPc,
           msg_rx, received, actorPc, files_to_upload, remote_paths, chunks,
           tasks, joinIdx, lockHolder, poisoned, remote_cwd,
           remote_dir_cache, ens, workers, remoteDirs, remoteFiles,
           sinkAlive, log, mkdirLog, joinedH, ensure_calls, batchFailed,
           faults, call, ret >>

pipelineVars ==
    << upload_initial, connection_count, watcher, emitted,
       rx_files_to_upload, mainPc,
       msg_rx, received, actorPc, files_to_upload, remote_paths, chunks,
       tasks, joinIdx, lockHolder, poisoned, remote_cwd, remote_dir_cache,
       ens, workers, remoteDirs, remoteFiles, sinkAlive, log, mkdirLog,
       joinedH, ensure_calls, batchFailed, faults >>

callVars == << call, ret >>

configVars == << connection_count, upload_initial >>

Returned == Len(ret) = 1

watcherVars == << watcher, emitted, rx_files_to_upload >>
mainVars == << mainPc, msg_rx >>
actorVars == << received, actorPc, files_to_upload, remote_paths, chunks,
                tasks, joinIdx, joinedH >>
sessionVars == << lockHolder, poisoned, remote_cwd, remote_dir_cache, ens >>
serverVars == << remoteDirs, remoteFiles, mkdirLog >>

Sessions == 1..connection_count

batchNo == Len(received)

EnsOff == [phase |-> "off", path |-> <<>>, k |-> 0]

IdleWorker ==
    [pc |-> "idle", chunk |-> <<>>, pos |-> 0, batch |-> 0,
     attempted |-> <<>>, results |-> <<>>, remote |-> <<>>]

Running(i) == workers[i].pc \notin {"idle", "done", "panicked"}

Alive == mainPc # "exited"

CanFault == faults < MaxFaults

\* the program when main calls start_watching
PipelineInit ==
    /\ connection_count \in 0..MaxConn
    /\ watcher = "init"
    /\ emitted = <<>>
    /\ rx_files_to_upload = <<>>
    /\ mainPc = "start"
    /\ msg_rx = <<>>
    /\ received = <<>>
    /\ actorPc = "unborn"
    /\ files_to_upload = <<>>
    /\ remote_paths = {}
    /\ chunks = <<>>
    /\ tasks = <<>>
    /\ joinIdx = 1
    /\ lockHolder = [i \in 1..connection_count |-> "free"]
    /\ poisoned = [i \in 1..connection_count |-> FALSE]
    /\ remote_cwd = [i \in 1..connection_count |-> None]
    /\ remote_dir_cache = [i \in 1..connection_count |-> {}]
    /\ ens = [i \in 1..connection_count |-> EnsOff]
    /\ workers = [i \in 1..connection_count |-> IdleWorker]
    /\ remoteDirs = { <<"/">>, InitialCwd }
    /\ remoteFiles = {}
    /\ sinkAlive = TRUE
    /\ log = {}
    /\ mkdirLog = {}
    /\ joinedH = {}
    /\ ensure_calls = EmptyBag
    /\ batchFailed = FALSE
    /\ faults = 0

Init ==
    /\ PipelineInit
    /\ upload_initial \in BOOLEAN
    /\ call = None
    /\ ret = <<>>

\* a channel that hands out the newest message first
channel_send_lifo(q, m) == <<m>> \o q

\* std::sync::mpsc: send appends to the queue, recv takes its head
channel_send(q, m) == Append(q, m)

\* ============================================================== watcher
\* start_watching: with upload_initial the batch of the initial scan is
\* sent (also when it is empty) before the WatchActor thread is spawned
StartWatching ==
    /\ mainPc = "start"
    /\ mainPc' = "connect"
    /\ watcher' = "running"
    /\ IF upload_initial
       THEN \E b \in Batches :
               /\ emitted' = Append(emitted, b)
               /\ rx_files_to_upload' = channel_send(rx_files_to_upload, b)
       ELSE UNCHANGED << emitted, rx_files_to_upload >>
    /\ UNCHANGED << callVars, ensure_calls, configVars, msg_rx, actorVars,
                    sessionVars, workers, serverVars, sinkAlive, log,
                    batchFailed, faults >>

\* a handler that could run before start_watching has sent the scan
CaptureStarted_early == TRUE

\* the handler runs on the thread start_watching spawns as its last step
CaptureStarted == watcher # "init"

\* watch_actor.rs: the action handler sends one batch per throttle window
WatcherEmit ==
    /\ Alive
    /\ CaptureStarted
    /\ watcher \notin {"quitting", "stopped"}
    /\ Len(emitted) < MaxBatches
    /\ \E b \in Batches :
        /\ emitted' = Append(emitted, b)
        /\ rx_files_to_upload' = channel_send(rx_files_to_upload, b)
    /\ UNCHANGED << callVars, ensure_calls, configVars, watcher,
                    mainVars, actorVars, sessionVars, workers, serverVars,
                    sinkAlive, log, batchFailed, faults >>

\* the action handler is called with Signal::Interrupt among the events of
\* the window: action.quit() is requested, and the handler still sends the
\* (possibly empty) batch of the window before it returns
WatcherInterrupt ==
    /\ Alive
    /\ watcher = "running"
    /\ Len(emitted) < MaxBatches
    /\ watcher' = "quitting"
    /\ \E b \in Batches :
        /\ emitted' = Append(emitted, b)
        /\ rx_files_to_upload' = channel_send(rx_files_to_upload, b)
    /\ UNCHANGED << callVars, ensure_calls, configVars, mainVars,
                    actorVars, sessionVars, workers, serverVars, sinkAlive,
                    log, batchFailed, faults >>

\* after quit: wx.main() returns, watch drops the Watchexec instance with
\* the handler's clone of files_to_upload_tx, run_self returns and drops
\* the actor with the original sender
WatcherQuit ==
    /\ Alive
    /\ watcher = "quitting"
    /\ watcher' = "stopped"
    /\ UNCHANGED << callVars, ensure_calls, configVars, emitted,
                    rx_files_to_upload, mainVars, actorVars, sessionVars,
                    workers, serverVars, sinkAlive, log, batchFailed,
                    faults >>

\* ================================================================= main
\* a pool that misses the session of the last connect thread
connected_pool_short(count) == 1..(count - 1)

\* UploadActor::new: one connect thread per i in 0..count pushes its client
\* to `connections`, and every thread is joined before the pool is built
connected_pool(count) == 1..count

\* UploadActorHandle::new on the main thread: UploadActor::new panics on a
\* count of 0; otherwise it connects connection_count sessions (each seeds
\* remote_cwd with realpath(".")) and joins the connect threads.  A panic
\* in connect (TCP, handshake, authentication, channel, SFTP subsystem,
\* initial realpath) fails the join and unwinds main: the process ends with
\* every thread in it.  Only after new has returned is the actor thread
\* spawned
\* a server that starts every session but the first in its root
initial_pwd_per_session(i) == IF i = 1 THEN InitialCwd ELSE <<"/">>

\* initial_pwd_remote: sftp.realpath(".") right after the login, the same
\* directory for every session of the one user on the one host
initial_pwd_remote(i) == InitialCwd

\* a start-up that goes on with the sessions that did connect
startup_lenient(count, failed) == count > 0

\* UploadActor::new returns only for a count above 0 and when the join of
\* every connect thread returned Ok, i.e. no connect panicked
startup_succeeds(count, failed) == count > 0 /\ failed = {}

MainConnect ==
    /\ mainPc = "connect"
    /\ \E failed \in {{}} \cup { {i} : i \in Sessions } :
        IF startup_succeeds(connection_count, failed)
        THEN /\ mainPc' = "recv"
             /\ actorPc' = "recv"
             /\ remote_cwd' =
                    [i \in Sessions |->
                        IF i \in connected_pool(connection_count) \ failed
                        THEN initial_pwd_remote(i) ELSE None]
             /\ UNCHANGED << watcher, log >>
        ELSE /\ mainPc' = "exited"
             /\ watcher' = "stopped"
             /\ log' = log \cup {[kind |-> "startup_panic", batch |-> 0,
                                  what |-> failed]}
             /\ UNCHANGED << actorPc, remote_cwd >>
    /\ UNCHANGED << callVars, ensure_calls, configVars, emitted,
                    rx_files_to_upload,
                    msg_rx, received, files_to_upload, remote_paths, chunks,
                    tasks, joinIdx, joinedH, lockHolder, poisoned,
                    remote_dir_cache, ens, workers, serverVars, sinkAlive,
                    batchFailed, faults >>

\* tx.send fails once the receiver is dropped, i.e. run_self has unwound
ActorReceiverAlive == actorPc # "panicked"

\* main.rs: one iteration of `while let Ok(files) = rx.recv()`
MainForward ==
    /\ mainPc = "recv"
    /\ Len(rx_files_to_upload) > 0
    /\ rx_files_to_upload' = Tail(rx_files_to_upload)
    /\ IF ActorReceiverAlive
       THEN /\ msg_rx' = channel_send(msg_rx, Head(rx_files_to_upload))
            /\ log' = log
       ELSE /\ msg_rx' = msg_rx
            /\ log' = log \cup {[kind |-> "send_error", batch |-> 0, what |-> <<>>]}
    /\ UNCHANGED << callVars, ensure_calls, configVars, watcher,
                    emitted, mainPc, actorVars, sessionVars, workers,
                    serverVars, sinkAlive, batchFailed, faults >>

SendersGone_leak == FALSE

\* every Sender of the batch channel is owned by the WatchActor or by the
\* handler closure inside its Watchexec instance
SendersGone == watcher = "stopped"

\* recv() returns Err once the channel is empty and every sender is gone;
\* main returns and the process ends, whatever the other threads are doing
MainExit ==
    /\ mainPc = "recv"
    /\ Len(rx_files_to_upload) = 0
    /\ SendersGone
    /\ mainPc' = "exited"
    /\ UNCHANGED << callVars, ensure_calls, configVars, watcherVars,
                    msg_rx, actorVars, sessionVars, workers, serverVars,
                    sinkAlive, log, batchFailed, faults >>

\* ======================================================== progress sink
\* progress_actor.rs: run_self ends (its thread unwinds), msg_rx is dropped
\* and every later send on a ProgressActorHandle returns Err
SinkDies ==
    /\ Alive
    /\ mainPc # "connect"
    /\ sinkAlive
    /\ CanFault
    /\ sinkAlive' = FALSE
    /\ faults' = faults + 1
    /\ UNCHANGED << callVars, ensure_calls, configVars, watcherVars,
                    mainVars, actorVars, sessionVars, workers, serverVars,
                    log, batchFailed >>

\* ============================================== ensure_dir_remote (walk)
\* One action of the model covers the stats of the walk up to the first
\* prefix that is not a directory (directories are never removed while the
\* pipeline runs, so an is_dir answer stays true); a mkdir is an action of
\* its own, because the stat that led to it may be stale when it is sent.

\* the path the walk builds up: remote_cwd joined with a relative argument
ens_full(s, path) ==
    IF is_relative(path) THEN remote_cwd[s] \o path ELSE path

\* length of working_path after the first push: an absolute path starts
\* from its first component, a relative one from remote_cwd
ens_first_k(s, path) ==
    IF is_relative(path) THEN Len(remote_cwd[s]) + 1 ELSE 2

\* a walk that takes no prefix for a directory
stat_is_dir_never(p) == FALSE

\* sftp.stat(working_path): Ok(stat) => stat.is_dir(), Err(_) => false
stat_is_dir(p) == p \in remoteDirs

\* the first prefix from length k0 on whose stat is not a directory, 0 if
\* the loop ends without one
first_missing(full, k0) ==
    LET missing == { k \in k0..Len(full) : ~stat_is_dir(SubSeq(full, 1, k)) }
    IN  IF missing = {} THEN 0
        ELSE CHOOSE k \in missing : \A j \in missing : k <= j

\* the walk from prefix length k0: finished (EnsOff) or about to mkdir
stat_run(s, path, k0) ==
    IF first_missing(ens_full(s, path), k0) = 0 THEN EnsOff
    ELSE [phase |-> "mkdir", path |-> path,
          k |-> first_missing(ens_full(s, path), k0)]

working_path(s) == SubSeq(ens_full(s, ens[s].path), 1, ens[s].k)

ens_last(s) == ens[s].k = Len(ens_full(s, ens[s].path))

\* the server's mkdir: refused when the path exists or its parent does not
server_mkdir_ok(p) ==
    /\ p \notin remoteDirs
    /\ p \notin remoteFiles
    /\ path_parent(p) \in remoteDirs

\* outcome of the mkdir of the walk: every Err is returned to the caller
mkdir_step(s, fault) ==
    IF ~fault /\ server_mkdir_ok(working_path(s))
    THEN IF ens_last(s) THEN "ok" ELSE "next"
    ELSE "err"

ens_after_mkdir(s, outcome) ==
    IF outcome = "next"
    THEN [ens[s] EXCEPT !.k = @ + 1, !.phase = "stat"]
    ELSE EnsOff

\* ensure_dir_remote_cached inserts the argument only when the walk was Ok
cache_insert(s, path) == remote_dir_cache[s] \cup {path}

MkdirRequest(who, s) ==
    [by |-> who, session |-> s, path |-> working_path(s), batch |-> batchNo]

LogLine(kind, what) == [kind |-> kind, batch |-> batchNo, what |-> what]

\* ============================================ upload actor (dispatcher)
\* the remote path of a local file as session s computes it
translate(s, file) ==
    local_to_remote_path_with_bases(remote_cwd[s], file, LocalBase, TargetDir)

\* the remote paths themselves, .parent() forgotten
remote_dirs_of_files(s, files) ==
    { translate(s, f).val : f \in { g \in SeqToSet(files) : translate(s, g).ok } }

\* Step 3.1: the parents of the remote paths; untranslatable files skipped
remote_dirs_of(s, files) ==
    { IF path_parent(translate(s, f).val) = None THEN <<".">>
      ELSE path_parent(translate(s, f).val) :
        f \in { g \in SeqToSet(files) : translate(s, g).ok } }

untranslatable(s, files) == { f \in SeqToSet(files) : ~translate(s, f).ok }

\* a dispatcher without Step 1
is_empty_batch_never(files) == FALSE

\* Step 1: files_to_upload.len() == 0
is_empty_batch(files) == Len(files) = 0

\* run_self: recv() one message; actor_upload_files Steps 1 and 2
ActorReceive ==
    /\ Alive
    /\ actorPc = "recv"
    /\ Len(msg_rx) > 0
    /\ msg_rx' = Tail(msg_rx)
    /\ received' = Append(received, Head(msg_rx))
    /\ IF is_empty_batch(Head(msg_rx))
       THEN UNCHANGED << actorPc, files_to_upload, remote_paths, chunks,
                         tasks, joinIdx, batchFailed, ensure_calls >>
       ELSE /\ files_to_upload' = Head(msg_rx)
            /\ ensure_calls' = EmptyBag
            /\ remote_paths' = {}
            /\ chunks' = <<>>
            /\ tasks' = <<>>
            /\ joinIdx' = 1
            /\ actorPc' = IF sinkAlive THEN "lock" ELSE "panicked"
            /\ batchFailed' = ~sinkAlive
    /\ UNCHANGED << callVars, configVars, watcherVars, mainPc, joinedH,
                    sessionVars, workers, serverVars, sinkAlive, log, faults >>

\* Step 3: connections.first().lock().unwrap(), then Step 3.1
ActorLockFirst ==
    /\ Alive
    /\ actorPc = "lock"
    /\ lockHolder[1] = "free"
    /\ IF poisoned[1]
       THEN /\ actorPc' = "panicked"
            /\ batchFailed' = TRUE
            /\ UNCHANGED << lockHolder, poisoned, remote_paths, log >>
       ELSE IF untranslatable(1, files_to_upload) # {} /\ ~sinkAlive
       THEN /\ actorPc' = "panicked"
            /\ batchFailed' = TRUE
            /\ poisoned' = [poisoned EXCEPT ![1] = TRUE]
            /\ UNCHANGED << lockHolder, remote_paths, log >>
       ELSE /\ actorPc' = "precreate"
            /\ lockHolder' = [lockHolder EXCEPT ![1] = "actor"]
            /\ remote_paths' = remote_dirs_of(1, files_to_upload)
            /\ log' = log \cup { LogLine("translate_error", f) :
                                   f \in untranslatable(1, files_to_upload) }
            /\ batchFailed' =
                 (batchFailed \/ untranslatable(1, files_to_upload) # {})
            /\ UNCHANGED poisoned
    /\ UNCHANGED << callVars, ensure_calls, configVars, watcherVars,
                    mainVars, received, files_to_upload, chunks, tasks,
                    joinIdx, joinedH, remote_cwd, remote_dir_cache, ens,
                    workers, serverVars, sinkAlive, faults >>

\* the actor thread unwinds while it holds the guard of session 1
ActorPanicsUnderLock ==
    /\ actorPc' = "panicked"
    /\ batchFailed' = TRUE
    /\ lockHolder' = [lockHolder EXCEPT ![1] = "free"]
    /\ poisoned' = [poisoned EXCEPT ![1] = TRUE]
    /\ ens' = [ens EXCEPT ![1] = EnsOff]

\* Step 3.2, one iteration: actor_print_ln, the cache lookup and the stats
\* of the walk up to its first mkdir
ActorEnsureStart ==
    /\ Alive
    /\ actorPc = "precreate"
    /\ \E path \in remote_paths :
        IF ~sinkAlive
        THEN /\ ActorPanicsUnderLock
             /\ UNCHANGED << remote_paths, remote_dir_cache, ensure_calls >>
        ELSE /\ remote_paths' = remote_paths \ {path}
             /\ ensure_calls' = ensure_calls (+) SetToBag({path})
             /\ UNCHANGED << lockHolder, poisoned, batchFailed >>
             /\ IF path \in remote_dir_cache[1]
                THEN UNCHANGED << actorPc, ens, remote_dir_cache >>
                ELSE IF stat_run(1, path, ens_first_k(1, path)) = EnsOff
                THEN /\ remote_dir_cache' =
                          [remote_dir_cache EXCEPT ![1] = cache_insert(1, path)]
                     /\ UNCHANGED << actorPc, ens >>
                ELSE /\ actorPc' = "ensure"
                     /\ ens' = [ens EXCEPT
                          ![1] = stat_run(1, path, ens_first_k(1, path))]
                     /\ UNCHANGED remote_dir_cache
    /\ UNCHANGED << callVars, configVars, watcherVars, mainVars, received,
                    files_to_upload, chunks, tasks, joinIdx, joinedH,
                    remote_cwd, workers, serverVars, sinkAlive, log, faults >>

\* the stats that follow a successful mkdir of a prefix
ActorEnsureStat ==
    /\ Alive
    /\ actorPc = "ensure"
    /\ ens[1].phase = "stat"
    /\ ens' = [ens EXCEPT ![1] = stat_run(1, ens[1].path, ens[1].k)]
    /\ IF stat_run(1, ens[1].path, ens[1].k) = EnsOff
       THEN /\ actorPc' = "precreate"
            /\ remote_dir_cache' = [remote_dir_cache EXCEPT
                                      ![1] = cache_insert(1, ens[1].path)]
       ELSE UNCHANGED << actorPc, remote_dir_cache >>
    /\ UNCHANGED << callVars, ensure_calls, configVars, watcherVars,
                    mainVars, received, files_to_upload, remote_paths, chunks,
                    tasks, joinIdx, joinedH, lockHolder, poisoned, remote_cwd,
                    workers, serverVars, sinkAlive, log, batchFailed,
                    faults >>

\* sftp.mkdir(working_path, 0o755); on Err the dispatcher logs and goes on
ActorEnsureMkdir ==
    /\ Alive
    /\ actorPc = "ensure"
    /\ ens[1].phase = "mkdir"
    /\ \E fault \in BOOLEAN :
        /\ fault => CanFault
        /\ faults' = IF fault THEN faults + 1 ELSE faults
        /\ mkdirLog' = mkdirLog \cup {MkdirRequest("actor", 1)}
        /\ remoteDirs' = IF mkdir_step(1, fault) = "err" THEN remoteDirs
                         ELSE remoteDirs \cup {working_path(1)}
        /\ IF mkdir_step(1, fault) = "err" /\ ~sinkAlive
           THEN /\ ActorPanicsUnderLock
                /\ UNCHANGED << remote_dir_cache, log >>
           ELSE /\ ens' = [ens EXCEPT
                             ![1] = ens_after_mkdir(1, mkdir_step(1, fault))]
                /\ remote_dir_cache' =
                     IF mkdir_step(1, fault) = "ok"
                     THEN [remote_dir_cache EXCEPT
                             ![1] = cache_insert(1, ens[1].path)]
                     ELSE remote_dir_cache
                /\ actorPc' = IF mkdir_step(1, fault) = "next"
                              THEN "ensure" ELSE "precreate"
                /\ log' = IF mkdir_step(1, fault) = "err"
                          THEN log \cup {LogLine("mkdir_error", ens[1].path)}
                          ELSE log
                /\ batchFailed' =
                     (batchFailed \/ mkdir_step(1, fault) = "err")
                /\ UNCHANGED << lockHolder, poisoned >>
    /\ UNCHANGED << callVars, ensure_calls, configVars, watcherVars,
                    mainVars, received, files_to_upload, remote_paths, chunks,
                    tasks, joinIdx, joinedH, remote_cwd, workers, remoteFiles,
                    sinkAlive >>

\* leaving the loop of Step 3.2 while directories are still to be ensured
PrecreateDone_early == TRUE

\* Step 3.2 has no directory left to ensure
PrecreateDone == remote_paths = {}

\* Step 3.3 drop(path_tree_client) and Step 4 split_to_n_chunks
ActorSplit ==
    /\ Alive
    /\ actorPc = "precreate"
    /\ PrecreateDone
    /\ lockHolder' = [lockHolder EXCEPT ![1] = "free"]
    /\ chunks' = split_to_n_chunks(files_to_upload, connection_count)
    /\ tasks' = <<>>
    /\ actorPc' = "spawn"
    /\ UNCHANGED << callVars, ensure_calls, configVars, watcherVars,
                    mainVars, received, files_to_upload, remote_paths,
                    joinIdx, joinedH, poisoned, remote_cwd, remote_dir_cache,
                    ens, workers, serverVars, sinkAlive, log, batchFailed,
                    faults >>

NewWorker(i) ==
    [pc |-> "lock", chunk |-> chunks[i], pos |-> 1, batch |-> batchNo,
     attempted |-> <<>>, results |-> <<>>, remote |-> <<>>]

\* Step 5, one iteration: set_bar_length(..).expect, then thread.spawn
ActorSpawn ==
    /\ Alive
    /\ actorPc = "spawn"
    /\ Len(tasks) < Len(chunks)
    /\ IF ~sinkAlive
       THEN /\ actorPc' = "panicked"
            /\ batchFailed' = TRUE
            /\ UNCHANGED << tasks, joinIdx, workers, faults >>
       ELSE \E fault \in BOOLEAN :
            /\ fault => CanFault
            /\ faults' = IF fault THEN faults + 1 ELSE faults
            /\ tasks' = Append(tasks, IF fault THEN "Err" ELSE "Ok")
            /\ workers' = IF fault THEN workers
                          ELSE [workers EXCEPT
                                  ![Len(tasks) + 1] = NewWorker(Len(tasks) + 1)]
            /\ batchFailed' = (batchFailed \/ fault)
            /\ actorPc' = IF Len(tasks) + 1 = Len(chunks) THEN "join"
                          ELSE "spawn"
            /\ joinIdx' = 1
    /\ UNCHANGED << callVars, ensure_calls, configVars, watcherVars,
                    mainVars, received, files_to_upload, remote_paths, chunks,
                    joinedH, sessionVars, serverVars, sinkAlive, log >>

\* a join that does not wait for the thread
JoinReady_nowait(j) == TRUE

\* task.join() returns once the worker thread has ended
JoinReady(j) == workers[j].pc \in {"done", "panicked"}

\* Step 6, one iteration
ActorJoin ==
    /\ Alive
    /\ actorPc = "join"
    /\ joinIdx <= Len(tasks)
    /\ IF tasks[joinIdx] = "Ok"
       THEN /\ JoinReady(joinIdx)
            /\ joinedH' = joinedH \cup { <<batchNo, joinIdx>> }
            /\ log' = IF workers[joinIdx].pc = "panicked" /\ sinkAlive
                      THEN log \cup {LogLine("join_error", <<>>)}
                      ELSE log
            /\ actorPc' = IF ~sinkAlive THEN "panicked"
                          ELSE IF joinIdx = Len(tasks) THEN "recv"
                          ELSE "join"
            /\ batchFailed' = (batchFailed \/ ~sinkAlive
                                 \/ workers[joinIdx].pc = "panicked")
       ELSE /\ log' = log \cup {LogLine("spawn_error", <<>>)}
            /\ actorPc' = IF joinIdx = Len(tasks) THEN "recv" ELSE "join"
            /\ UNCHANGED << joinedH, batchFailed >>
    /\ joinIdx' = joinIdx + 1
    /\ UNCHANGED << callVars, ensure_calls, configVars, watcherVars,
                    mainVars, received, files_to_upload, remote_paths, chunks,
                    tasks, sessionVars, workers, serverVars, sinkAlive,
                    faults >>

\* ====================================================== worker threads
\* the worker thread unwinds while it holds the guard of its session
WorkerPanicsUnderLock(i) ==
    /\ workers' = [workers EXCEPT ![i].pc = "panicked"]
    /\ lockHolder' = [lockHolder EXCEPT ![i] = "free"]
    /\ poisoned' = [poisoned EXCEPT ![i] = TRUE]
    /\ ens' = [ens EXCEPT ![i] = EnsOff]
    /\ batchFailed' = TRUE

\* a loop that ends at the first Err
next_file_break(w, sync_result) ==
    IF w.pos >= Len(w.chunk) \/ sync_result = "Err"
    THEN [w EXCEPT !.pc = "done", !.pos = @ + 1]
    ELSE [w EXCEPT !.pc = "file", !.pos = @ + 1]

\* where the loop goes after the file at pos, whatever sync_result was:
\* the next file or the end of the thread (the guard is dropped at the end
\* of the closure)
next_file(w, sync_result) ==
    IF w.pos >= Len(w.chunk)
    THEN [w EXCEPT !.pc = "done", !.pos = @ + 1]
    ELSE [w EXCEPT !.pc = "file", !.pos = @ + 1]

\* a guard taken and dropped around each file
guard_after_per_file(w) == "free"

\* thread_client is bound outside the for loop: the guard lives until the
\* closure ends, so the mutex is held between the files of the chunk
guard_after(w) == IF w.pc = "done" THEN "free" ELSE "worker"

\* thread_client_arc.lock().unwrap()
WorkerLock(i) ==
    /\ Alive
    /\ workers[i].pc = "lock"
    /\ lockHolder[i] = "free"
    /\ IF poisoned[i]
       THEN /\ workers' = [workers EXCEPT ![i].pc = "panicked"]
            /\ batchFailed' = TRUE
            /\ UNCHANGED lockHolder
       ELSE IF Len(workers[i].chunk) = 0
       THEN /\ workers' = [workers EXCEPT ![i].pc = "done"]
            /\ UNCHANGED << lockHolder, batchFailed >>
       ELSE /\ workers' = [workers EXCEPT ![i].pc = "file"]
            /\ lockHolder' = [lockHolder EXCEPT ![i] = "worker"]
            /\ UNCHANGED batchFailed
    /\ UNCHANGED << callVars, ensure_calls, configVars, watcherVars,
                    mainVars, actorVars, poisoned, remote_cwd,
                    remote_dir_cache, ens, serverVars, sinkAlive, log,
                    faults >>

current_file(i) == workers[i].chunk[workers[i].pos]

UploadError(i) == LogLine("upload_error", current_file(i))

\* One loop iteration up to its first mkdir or open request:
\* set_bar_msg(..).expect, then sync_file_to_dir: translate, canonicalize and
\* open the local file, ensure_dir_remote_cached of the parent (cache lookup
\* and the stats of the walk)
WorkerSync(i) ==
    /\ Alive
    /\ workers[i].pc = "file"
    /\ IF ~sinkAlive
       THEN /\ WorkerPanicsUnderLock(i)
            /\ UNCHANGED << remote_dir_cache, log, faults >>
       ELSE \E fault \in BOOLEAN :
            /\ fault => CanFault /\ translate(i, current_file(i)).ok
            /\ faults' = IF fault THEN faults + 1 ELSE faults
            /\ UNCHANGED << lockHolder, poisoned >>
            /\ LET file == current_file(i)
                   tr == translate(i, file)
                   w == [workers[i] EXCEPT !.attempted = Append(@, file)]
                   remote_dir == path_parent(tr.val)
                   run == stat_run(i, remote_dir, ens_first_k(i, remote_dir))
               IN  IF ~tr.ok \/ fault \/ remote_dir = None
                   THEN /\ workers' = [workers EXCEPT
                                 ![i] = [w EXCEPT !.pc = "inc_bar_pos",
                                           !.results = Append(@, "Err")]]
                        /\ log' = log \cup {UploadError(i)}
                        /\ batchFailed' = TRUE
                        /\ UNCHANGED << ens, remote_dir_cache >>
                   ELSE /\ log' = log
                        /\ batchFailed' = batchFailed
                        /\ IF remote_dir \in remote_dir_cache[i]
                           THEN /\ workers' = [workers EXCEPT ![i] =
                                     [w EXCEPT !.pc = "open", !.remote = tr.val]]
                                /\ UNCHANGED << ens, remote_dir_cache >>
                           ELSE IF run = EnsOff
                           THEN /\ workers' = [workers EXCEPT ![i] =
                                     [w EXCEPT !.pc = "open", !.remote = tr.val]]
                                /\ remote_dir_cache' = [remote_dir_cache EXCEPT
                                       ![i] = cache_insert(i, remote_dir)]
                                /\ UNCHANGED ens
                           ELSE /\ workers' = [workers EXCEPT ![i] =
                                     [w EXCEPT !.pc = "ensure", !.remote = tr.val]]
                                /\ ens' = [ens EXCEPT ![i] = run]
                                /\ UNCHANGED remote_dir_cache
    /\ UNCHANGED << callVars, ensure_calls, configVars, watcherVars,
                    mainVars, actorVars, remote_cwd, serverVars, sinkAlive >>

\* the stats that follow a successful mkdir of a prefix
WorkerEnsureStat(i) ==
    /\ Alive
    /\ workers[i].pc = "ensure"
    /\ ens[i].phase = "stat"
    /\ ens' = [ens EXCEPT ![i] = stat_run(i, ens[i].path, ens[i].k)]
    /\ IF stat_run(i, ens[i].path, ens[i].k) = EnsOff
       THEN /\ workers' = [workers EXCEPT ![i].pc = "open"]
            /\ remote_dir_cache' = [remote_dir_cache EXCEPT
                                      ![i] = cache_insert(i, ens[i].path)]
       ELSE UNCHANGED << workers, remote_dir_cache >>
    /\ UNCHANGED << callVars, ensure_calls, configVars, watcherVars,
                    mainVars, actorVars, lockHolder, poisoned, remote_cwd,
                    serverVars, sinkAlive, log, batchFailed, faults >>

\* sftp.mkdir(working_path, 0o755); an Err ends sync_file_to_dir with Err
WorkerEnsureMkdir(i) ==
    /\ Alive
    /\ workers[i].pc = "ensure"
    /\ ens[i].phase = "mkdir"
    /\ \E fault \in BOOLEAN :
        /\ fault => CanFault
        /\ faults' = IF fault THEN faults + 1 ELSE faults
        /\ mkdirLog' = mkdirLog \cup {MkdirRequest("worker", i)}
        /\ remoteDirs' = IF mkdir_step(i, fault) = "err" THEN remoteDirs
                         ELSE remoteDirs \cup {working_path(i)}
        /\ ens' = [ens EXCEPT ![i] = ens_after_mkdir(i, mkdir_step(i, fault))]
        /\ remote_dir_cache' =
             IF mkdir_step(i, fault) = "ok"
             THEN [remote_dir_cache EXCEPT ![i] = cache_insert(i, ens[i].path)]
             ELSE remote_dir_cache
        /\ workers' = [workers EXCEPT
             ![i].pc = CASE mkdir_step(i, fault) = "ok" -> "open"
                         [] mkdir_step(i, fault) = "next" -> "ensure"
                         [] OTHER -> "inc_bar_pos",
             ![i].results = IF mkdir_step(i, fault) = "err"
                            THEN Append(@, "Err") ELSE @]
        /\ log' = IF mkdir_step(i, fault) = "err"
                  THEN log \cup {UploadError(i)} ELSE log
        /\ batchFailed' = (batchFailed \/ mkdir_step(i, fault) = "err")
    /\ UNCHANGED << callVars, ensure_calls, configVars, watcherVars,
                    mainVars, actorVars, lockHolder, poisoned, remote_cwd,
                    remoteFiles, sinkAlive >>

\* the server's open(CREATE | WRITE | TRUNCATE) of a file path
server_open_ok(p) ==
    /\ p \notin remoteDirs
    /\ path_parent(p) \in remoteDirs

\* upload_file_explicit STEP 4.2 to 7 (open_mode, copy, flush, close; a
\* failure after open_mode leaves the created file behind), the println of
\* an Err, then inc_bar_pos(i, 1).expect(..)
WorkerOpen(i) ==
    /\ Alive
    /\ workers[i].pc = "open"
    /\ \E fault \in {"none", "open", "copy"} :
        /\ fault # "none" => CanFault
        /\ faults' = IF fault # "none" THEN faults + 1 ELSE faults
        /\ LET opened == fault # "open" /\ server_open_ok(workers[i].remote)
               failed == ~opened \/ fault = "copy"
               sync_result == IF failed THEN "Err" ELSE "Ok"
           IN  /\ remoteFiles' = IF opened
                                 THEN remoteFiles \cup {workers[i].remote}
                                 ELSE remoteFiles
               /\ log' = IF failed THEN log \cup {UploadError(i)} ELSE log
               /\ IF ~sinkAlive
                  THEN /\ workers' = [workers EXCEPT
                            ![i].pc = "panicked",
                            ![i].results = Append(@, sync_result)]
                       /\ lockHolder' = [lockHolder EXCEPT ![i] = "free"]
                       /\ poisoned' = [poisoned EXCEPT ![i] = TRUE]
                       /\ batchFailed' = TRUE
                       /\ UNCHANGED ens
                  ELSE /\ workers' = [workers EXCEPT
                            ![i] = next_file([workers[i] EXCEPT
                                       !.results = Append(@, sync_result)],
                                     sync_result)]
                       /\ lockHolder' = [lockHolder EXCEPT ![i] =
                            guard_after(next_file(workers[i], sync_result))]
                       /\ batchFailed' = (batchFailed \/ failed)
                       /\ UNCHANGED << poisoned, ens >>
    /\ UNCHANGED << callVars, ensure_calls, configVars, watcherVars,
                    mainVars, actorVars, remote_cwd, remote_dir_cache,
                    remoteDirs, mkdirLog, sinkAlive >>

\* after the println of an Err that came before open_mode:
\* inc_bar_pos(i, 1).expect(..), then the next file or the end of the thread
WorkerIncBarPos(i) ==
    /\ Alive
    /\ workers[i].pc = "inc_bar_pos"
    /\ IF ~sinkAlive
       THEN WorkerPanicsUnderLock(i)
       ELSE /\ workers' = [workers EXCEPT ![i] = next_file(workers[i], "Err")]
            /\ lockHolder' = [lockHolder EXCEPT ![i] =
                                 guard_after(next_file(workers[i], "Err"))]
            /\ UNCHANGED << poisoned, ens, batchFailed >>
    /\ UNCHANGED << callVars, ensure_calls, configVars, watcherVars,
                    mainVars, actorVars, remote_cwd, remote_dir_cache,
                    serverVars, sinkAlive, log, faults >>

\* ========================================================= specification
Next ==
    \/ StartWatching
    \/ WatcherEmit
    \/ WatcherInterrupt
    \/ WatcherQuit
    \/ MainConnect
    \/ MainForward
    \/ MainExit
    \/ SinkDies
    \/ ActorReceive
    \/ ActorLockFirst
    \/ ActorEnsureStart
    \/ ActorEnsureStat
    \/ ActorEnsureMkdir
    \/ ActorSplit
    \/ ActorSpawn
    \/ ActorJoin
    \/ \E i \in Sessions : WorkerLock(i)
    \/ \E i \in Sessions : WorkerSync(i)
    \/ \E i \in Sessions : WorkerEnsureStat(i)
    \/ \E i \in Sessions : WorkerEnsureMkdir(i)
    \/ \E i \in Sessions : WorkerOpen(i)
    \/ \E i \in Sessions : WorkerIncBarPos(i)

Spec == Init /\ [][Next]_vars

\* ------------------------------------------- split_to_n_chunks on its own
\* the lists 1..k and every list over {1, 2} of up to three elements
SplitInputs ==
    { [j \in 1..k |-> j] : k \in 0..MaxSplitLen }
        \cup UNION { [1..k -> {1, 2}] : k \in 0..3 }

SplitInit ==
    /\ PipelineInit
    /\ upload_initial = FALSE
    /\ connection_count = 1
    /\ call \in { [fn |-> "split_to_n_chunks", array |-> a, n |-> m] :
                     a \in SplitInputs, m \in 1..MaxSplitN }
    /\ ret = <<>>

SplitCall ==
    /\ ~Returned
    /\ ret' = <<split_to_n_chunks(call.array, call.n)>>
    /\ UNCHANGED << pipelineVars, call >>

SplitSpec == SplitInit /\ [][SplitCall]_vars

\* ------------------------------------------ the watcher's filters alone
\* strings are sequences of characters
str_contains(s, pat) ==
    \E k \in 1..(Len(s) - Len(pat) + 1) : SubSeq(s, k, k + Len(pat) - 1) = pat

str_ends_with(s, pat) ==
    Len(pat) <= Len(s) /\ SubSeq(s, Len(s) - Len(pat) + 1, Len(s)) = pat

ignored_by(path_str, ignore_includes, ignore_ends) ==
    \/ \E k \in 1..Len(ignore_ends) : str_ends_with(path_str, ignore_ends[k])
    \/ \E k \in 1..Len(ignore_includes) :
           str_contains(path_str, ignore_includes[k])

\* Option<&PathBuf>: <<>> is None, <<p>> is Some(p)
Some(p) == <<p>>

\* the loop over the tags of one event, from tag k on; fs is the file
\* system as the handler sees it (path.is_dir() asks it)
RECURSIVE match_tags(_, _, _, _, _, _)
match_tags(tags, k, result_path, ignore_includes, ignore_ends, fs) ==
    IF k > Len(tags) THEN result_path
    ELSE LET t == tags[k]
             go_on(r) == match_tags(tags, k + 1, r, ignore_includes,
                                    ignore_ends, fs)
         IN  CASE t.tag = "Path" ->
                    IF fs[t.path] = "dir" THEN <<>>
                    ELSE IF ignored_by(t.path, ignore_includes, ignore_ends)
                    THEN <<>>
                    ELSE go_on(Some(t.path))
               [] t.tag = "FileEventKind" ->
                    IF t.kind \in {"Access", "ModifyMetadata", "Remove", "Other"}
                    THEN <<>>
                    ELSE go_on(result_path)
               [] t.tag \in {"Keyboard", "Signal"} -> <<>>
               [] OTHER -> go_on(result_path)

match_event_by_tags(tags, ignore_includes, ignore_ends, fs) ==
    match_tags(tags, 1, <<>>, ignore_includes, ignore_ends, fs)

\* the handler: filter_map over the events, collected into a HashSet
handler_files(events, ignore_includes, ignore_ends, fs) ==
    { m[1] : m \in
        { match_event_by_tags(events[k], ignore_includes, ignore_ends, fs) :
            k \in 1..Len(events) } \ { <<>> } }

\* Path::canonicalize of a walked path: absolute, below the process cwd
\* when the walked path is relative
canonicalize(cwd, walked) ==
    IF Len(walked) > 0 /\ walked[1] = "/" THEN walked
    ELSE cwd \o <<"/">> \o walked

\* start_watching with upload_initial: the patterns are matched against
\* the walked path, the canonicalised path is what is sent
initial_files(entries, cwd, ignore_includes, ignore_ends) ==
    { canonicalize(cwd, e.path) :
        e \in { d \in entries :
                  /\ d.file_type = "file"
                  /\ ~ignored_by(d.path, ignore_includes, ignore_ends) } }

\* the characters, paths and patterns the filters are tried on
WatchedFiles == { <<"/", "c", "/", "w", "/", "a">>,
                  <<"/", "c", "/", "w", "/", "a", "m">> }

WalkedFiles == { <<"w", "/", "a">>, <<"w", "/", "a", "m">>,
                 <<"/", "c", "/", "w", "/", "a">> }

ProcessCwds == { <<"/", "c">>, <<"/", "a", "m">> }

IgnoreEnds == { <<>>, << <<"m">> >> }

IgnoreIncludes == { <<>>, << <<"a", "m">> >> }

FileTypes == {"file", "dir", "missing", "other"}

PathTag(p) == [tag |-> "Path", path |-> p]

KindTag(kind) == [tag |-> "FileEventKind", kind |-> kind]

SourceTag == [tag |-> "Source"]

\* file system events (one path, or two for a rename), an event without a
\* kind, the interrupt, a key press, and an event tagged with a process
EventUniverse ==
    { <<SourceTag, KindTag(kind), PathTag(p)>> :
        kind \in {"Any", "Access", "Create", "ModifyAny", "ModifyData",
                  "ModifyMetadata", "ModifyOther", "Remove", "Other"},
        p \in WatchedFiles }
    \cup { <<SourceTag, KindTag("ModifyName"), PathTag(pq[1]), PathTag(pq[2])>> :
             pq \in { r \in WatchedFiles \X WatchedFiles : r[1] # r[2] } }
    \cup { <<SourceTag, PathTag(p)>> : p \in WatchedFiles }
    \cup { <<SourceTag, [tag |-> "Signal"]>>, <<[tag |-> "Keyboard"]>> }
    \cup { <<[tag |-> "Process"], KindTag("Create"), PathTag(p)>> :
             p \in WatchedFiles }

RECURSIVE SeqsUpTo(_, _)
SeqsUpTo(S, n) ==
    IF n = 0 THEN { <<>> }
    ELSE SeqsUpTo(S, n - 1) \cup
         { Append(q, e) : q \in { r \in SeqsUpTo(S, n - 1) : Len(r) = n - 1 },
                          e \in S }

WatchCalls ==
    { [fn |-> "watch", events |-> evs, fs |-> f, ignore_includes |-> inc,
       ignore_ends |-> en] :
        evs \in SeqsUpTo(EventUniverse, MaxEvents) \ { <<>> },
        f \in [WatchedFiles -> FileTypes],
        inc \in IgnoreIncludes, en \in IgnoreEnds }

ScanCalls ==
    { [fn |-> "start_watching", entries |-> es, cwd |-> c,
       ignore_includes |-> inc, ignore_ends |-> en] :
        es \in SUBSET { [path |-> w, file_type |-> t] :
                          w \in WalkedFiles, t \in {"file", "dir"} },
        c \in ProcessCwds, inc \in IgnoreIncludes, en \in IgnoreEnds }

FilterInit ==
    /\ PipelineInit
    /\ upload_initial = FALSE
    /\ connection_count = 1
    /\ call \in WatchCalls \cup ScanCalls
    /\ ret = <<>>

\* watch_actor.rs: one call of the action handler
HandlerCall ==
    /\ ~Returned
    /\ call.fn = "watch"
    /\ ret' = <<handler_files(call.events, call.ignore_includes,
                              call.ignore_ends, call.fs)>>
    /\ UNCHANGED << pipelineVars, call >>

\* watch_actor_handle.rs: the initial scan of start_watching
ScanCall ==
    /\ ~Returned
    /\ call.fn = "start_watching"
    /\ ret' = <<initial_files(call.entries, call.cwd, call.ignore_includes,
                              call.ignore_ends)>>
    /\ UNCHANGED << pipelineVars, call >>

FilterNext == HandlerCall \/ ScanCall

FilterSpec == FilterInit /\ [][FilterNext]_vars

\* ------------------------------------------- path translation alone
\* an absolute path with "." and ".." resolved, as realpath resolves them
RECURSIVE realpath(_, _)
realpath(path, acc) ==
    IF path = <<>> THEN acc
    ELSE IF Head(path) = "." THEN realpath(Tail(path), acc)
    ELSE IF Head(path) = ".."
    THEN realpath(Tail(path),
                  IF Len(acc) > 1 THEN SubSeq(acc, 1, Len(acc) - 1) ELSE acc)
    ELSE realpath(Tail(path), Append(acc, Head(path)))

\* the local directories that exist (no symbolic links among them)
LocalDirs == { <<"/">>, LocalBase, LocalBase \o <<"a">> }

\* Path::canonicalize of a base: made absolute against the process cwd,
\* "." and ".." resolved, Err when nothing is there
base_canonicalize(pcwd, base) ==
    LET resolved == realpath(path_join(pcwd, base), <<>>)
    IN  IF resolved \in LocalDirs \cup SeqToSet(FileList)
        THEN Ok(resolved) ELSE Err("NotFound")

\* a translation that takes every local path as it is
relative_path_lenient(pcwd, input_path, base_path) == Ok(input_path)

\* local_utils.rs with its Option<&Path> base: <<>> is None, <<b>> Some(b)
relative_path_from_local(pcwd, input_path, base_path) ==
    LET use_base_path == IF base_path = <<>> THEN Ok(pcwd)
                         ELSE base_canonicalize(pcwd, base_path[1])
    IN  IF is_relative(input_path) THEN Err("InvalidInput")
        ELSE IF ~use_base_path.ok THEN Err("NotFound")
        ELSE IF ~starts_with(input_path, use_base_path.val) THEN Err("Other")
        ELSE compute_relative_path_from_local(input_path, use_base_path.val)

\* local_to_remote_path and the four functions it chooses from
local_to_remote_path(pcwd, cwd, local_path, local_base, remote_base) ==
    LET relative_local ==
            relative_path_from_local(pcwd, local_path, local_base)
    IN  IF ~relative_local.ok THEN relative_local
        ELSE IF remote_base = <<>>
        THEN Ok(canonicalize_remote(cwd, relative_local.val))
        ELSE Ok(path_join(canonicalize_remote(cwd, remote_base[1]),
                          relative_local.val))

TranslateCalls ==
    { [fn |-> "local_to_remote_path", pcwd |-> pc, cwd |-> rc,
       local_path |-> f, local_base |-> b, remote_base |-> r] :
        pc \in { <<"/">>, LocalBase }, rc \in { InitialCwd, <<"/">> },
        f \in SeqToSet(FileList) \cup { <<"a", "z">>, <<"/", "v", "x">> },
        b \in { <<>>, <<LocalBase>>, << <<"w">> >>,
                << LocalBase \o <<"a">> >>, << <<"/", "q">> >> },
        r \in { <<>>, <<TargetDir>>, << <<"/", "r">> >> } }

TranslateInit ==
    /\ PipelineInit
    /\ upload_initial = FALSE
    /\ connection_count = 1
    /\ call \in TranslateCalls
    /\ ret = <<>>

TranslateCall ==
    /\ ~Returned
    /\ ret' = <<local_to_remote_path(call.pcwd, call.cwd, call.local_path,
                                     call.local_base, call.remote_base)>>
    /\ UNCHANGED << pipelineVars, call >>

TranslateSpec == TranslateInit /\ [][TranslateCall]_vars

\* ------------------------------------------- cli/upload_pair.rs alone
\* an argument is a sequence of characters
PairChars == {"a", ":", " ", "/"}

\* str::split(":"): the parts between the separators, first to last
RECURSIVE str_split(_, _)
str_split(s, acc) ==
    IF Len(s) = 0 THEN <<acc>>
    ELSE IF Head(s) = ":" THEN <<acc>> \o str_split(Tail(s), <<>>)
    ELSE str_split(Tail(s), Append(acc, Head(s)))

\* str::trim: without leading and trailing whitespace
str_trim(s) ==
    LET keep == { k \in 1..Len(s) : s[k] # " " }
    IN  IF keep = {} THEN <<>>
        ELSE SubSeq(s, CHOOSE k \in keep : \A j \in keep : k <= j,
                       CHOOSE k \in keep : \A j \in keep : k >= j)

\* UploadPair::new; target is <<>> for None and <<t>> for Some(t)
UploadPair_new(source, target) ==
    IF Len(target) = 1 THEN Ok([source |-> source, target |-> target[1]])
    ELSE IF ~is_relative(source) THEN Err("panic")
    ELSE Ok([source |-> source, target |-> source])

\* UploadPair::from_uploadpair_string: the first two items of the split
from_uploadpair_string(upload_pair_string) ==
    LET parts == str_split(upload_pair_string, <<>>)
        source == str_trim(parts[1])
        target == IF Len(parts) >= 2 THEN <<str_trim(parts[2])>> ELSE <<>>
    IN  UploadPair_new(source, target)

PairInit ==
    /\ PipelineInit
    /\ upload_initial = FALSE
    /\ connection_count = 1
    /\ call \in { [fn |-> "from_uploadpair_string", arg |-> a] :
                     a \in SeqsUpTo(PairChars, MaxPairLen) }
    /\ ret = <<>>

PairCall ==
    /\ ~Returned
    /\ ret' = <<from_uploadpair_string(call.arg)>>
    /\ UNCHANGED << pipelineVars, call >>

PairSpec == PairInit /\ [][PairCall]_vars

\* ------------------------------ the client's interface, call by call
\* Connected sessions on which a user of SftpClient makes up to MaxCalls
\* calls in all; call[s] lists the calls made on session s, ret[s] their
\* results. A call is one action, except that every mkdir of a walk is an
\* action of its own: another session may act between the stat that found
\* a prefix missing and the mkdir that follows it.
SessionCalls ==
    { [fn |-> f, path |-> q] :
        f \in {"ensure_dir_remote", "ensure_dir_remote_cached"},
        q \in { <<"d">>, <<"/", "h", "d", "e">> } }
    \cup { [fn |-> "upload_file_explicit", path |-> <<"d", "f">>,
             fail |-> x] :
             x \in {"none", "canonicalize", "open_local", "copy", "flush",
                    "close"} }
    \cup { [fn |-> "sync_file_to_dir", path |-> <<"d">>, pcwd |-> <<"/">>,
             local |-> fb[1], base |-> fb[2]] :
             fb \in { <<FileList[1], <<LocalBase>>>>,
                      <<<<"x">>, <<LocalBase>>>>,
                      <<FileList[1], << LocalBase \o <<"a">> >>>>,
                      <<FileList[1], << <<"/", "q">> >>>> } }
    \cup { [fn |-> "cd_remote", path |-> q] :
             q \in { <<"d">>, <<"..">>, <<"d", "f">> } }
    \cup { [fn |-> "set_remote_cwd", path |-> <<"/", "x">>] }
    \cup { [fn |-> "rmrf_remote", path |-> q] :
             q \in { <<"d">>, <<"/", "h", "d">> } }

SessionInit ==
    /\ upload_initial = FALSE
    /\ connection_count \in 1..MaxConn
    /\ watcher = "running"
    /\ emitted = <<>>
    /\ rx_files_to_upload = <<>>
    /\ mainPc = "recv"
    /\ msg_rx = <<>>
    /\ received = <<>>
    /\ actorPc = "unborn"
    /\ files_to_upload = <<>>
    /\ remote_paths = {}
    /\ chunks = <<>>
    /\ tasks = <<>>
    /\ joinIdx = 1
    /\ lockHolder = [i \in 1..connection_count |-> "free"]
    /\ poisoned = [i \in 1..connection_count |-> FALSE]
    /\ remote_cwd = [i \in 1..connection_count |-> InitialCwd]
    /\ remote_dir_cache = [i \in 1..connection_count |-> {}]
    /\ ens = [i \in 1..connection_count |-> EnsOff]
    /\ workers = [i \in 1..connection_count |-> IdleWorker]
    /\ remoteDirs = { <<"/">>, InitialCwd }
    /\ remoteFiles = {}
    /\ sinkAlive = TRUE
    /\ log = {}
    /\ mkdirLog = {}
    /\ joinedH = {}
    /\ ensure_calls = EmptyBag
    /\ batchFailed = FALSE
    /\ faults = 0
    /\ call = [i \in 1..connection_count |-> <<>>]
    /\ ret = [i \in 1..connection_count |-> <<>>]

\* what no call on a session touches
outsideSession ==
    << configVars, watcherVars, mainVars, actorVars, lockHolder, poisoned,
       workers, mkdirLog, sinkAlive, log, ensure_calls, batchFailed,
       faults >>

\* the session can take a new call: none is running, none has panicked
CanCall(s) ==
    /\ ens[s] = EnsOff
    /\ Cardinality({ sk \in Sessions \X (1..MaxCalls) :
                       sk[2] <= Len(call[sk[1]]) }) < MaxCalls
    /\ Len(ret[s]) > 0 => ret[s][Len(ret[s])] # Err("panic")

\* the record of a call: reqs counts the requests it sent to the server,
\* cwd is the virtual cwd it started from
NewCall(s, c, reqs) ==
    Append(call[s], c @@ [reqs |-> reqs, cwd |-> remote_cwd[s]])

\* a server that hands the path back as it came
realpath_verbatim(path) == path

\* sftp.realpath(path)
server_realpath(path) == realpath(path, <<>>)

\* the remote file of an upload: sync_file_to_dir translates the local
\* path, upload_file_explicit canonicalises the remote path it is given
remote_file(s, c) ==
    IF c.fn = "sync_file_to_dir"
    THEN local_to_remote_path(c.pcwd, remote_cwd[s], c.local, c.base,
                              <<c.path>>)
    ELSE Ok(canonicalize_remote(remote_cwd[s], c.path))

\* the directory a call walks: the argument of ensure_dir_remote[_cached],
\* the parent of the remote file for an upload
walk_dir(s, c) ==
    IF c.fn \in {"upload_file_explicit", "sync_file_to_dir"}
    THEN path_parent(remote_file(s, c).val)
    ELSE c.path

\* a client whose cached variant never looks at or fills the cache
uses_cache_never(c) == FALSE

\* upload_file_explicit is called with allow_cached_ensure_remote_dir
uses_cache(c) == c.fn # "ensure_dir_remote"

\* the steps of upload_file_explicit in the order of its statements; a
\* call made with fail = x meets an i/o error at step x, if it gets there
UploadSteps ==
    <<"canonicalize", "open_local", "ensure", "open_remote", "copy", "flush",
      "close">>

\* the SftpClientError a failing step returns
step_error(step) ==
    CASE step = "canonicalize" -> "LocalPathError"
      [] step = "open_local" -> "OpenLocalFileError"
      [] step = "ensure" -> "RemoteMkdirError"
      [] step = "open_remote" -> "OpenRemoteFileError"
      [] step = "copy" -> "LocalToRemoteCopyError"
      [] step = "flush" -> "LocalToRemoteCopyError"
      [] step = "close" -> "CloseRemoteFileError"

\* the result of upload_file_explicit with the steps it ran; failed_at is
\* the step that returned Err, "none" when every step returned Ok
upload_result(failed_at) ==
    IF failed_at = "none" THEN Ok(<<>>) @@ [steps |-> UploadSteps]
    ELSE Err(step_error(failed_at)) @@
         [steps |-> SubSeq(UploadSteps, 1,
                       CHOOSE k \in 1..Len(UploadSteps) :
                           UploadSteps[k] = failed_at)]

\* an upload that does not look at the local file before it goes remote
local_failure_unseen(c) == "none"

\* Step 1 and STEP 2 of upload_file_explicit: canonicalize and File::open
\* of the local path, each returning its error with `?`
local_failure(c) ==
    IF c.fn = "upload_file_explicit" /\ c.fail \in {"canonicalize", "open_local"}
    THEN c.fail ELSE "none"

\* the end of a walk: the cache insert of ensure_dir_remote_cached, then
\* for an upload open_mode .. close on the server as the mkdirs left it
walk_done(s, c, dir, ok) ==
    LET file == remote_file(s, c).val
        upload == ok /\ c.fn \in {"upload_file_explicit", "sync_file_to_dir"}
        failed_at ==
            IF ~ok THEN "ensure"
            ELSE IF upload /\ ~server_open_ok(file)' THEN "open_remote"
            ELSE IF c.fn = "upload_file_explicit"
                    /\ c.fail \in {"copy", "flush", "close"}
            THEN c.fail
            ELSE "none"
    IN  /\ remote_dir_cache' =
             IF ok /\ uses_cache(c)
             THEN [remote_dir_cache EXCEPT ![s] = @ \cup {dir}]
             ELSE remote_dir_cache
        /\ remoteFiles' = IF upload /\ server_open_ok(file)'
                          THEN remoteFiles \cup {file} ELSE remoteFiles
        /\ ret' = [ret EXCEPT ![s] = Append(@,
                     IF c.fn = "upload_file_explicit"
                     THEN upload_result(failed_at)
                     ELSE IF failed_at = "none" THEN Ok(<<>>)
                     ELSE Err(step_error(failed_at)))]

\* ensure_dir_remote, ensure_dir_remote_cached, upload_file_explicit or
\* sync_file_to_dir up to the first mkdir of the walk, or to the end if
\* there is none; upload_file_explicit returns the Err of its local steps,
\* sync_file_to_dir the Err of the translation, before anything else is
\* done
SessWalk(s) ==
    /\ CanCall(s)
    /\ UNCHANGED << outsideSession, remote_cwd >>
    /\ \E c \in { d \in SessionCalls : d.fn \in
                    {"ensure_dir_remote", "ensure_dir_remote_cached",
                     "upload_file_explicit", "sync_file_to_dir"} } :
        LET dir == walk_dir(s, c)
            k0 == ens_first_k(s, dir)
            run == stat_run(s, dir, k0)
            stats == IF run = EnsOff THEN Len(ens_full(s, dir)) - k0 + 1
                     ELSE run.k - k0 + 1
        IN  /\ remoteDirs' = remoteDirs
            /\ IF local_failure(c) # "none"
               THEN /\ call' = [call EXCEPT ![s] = NewCall(s, c, 0)]
                    /\ ret' = [ret EXCEPT ![s] =
                                 Append(@, upload_result(local_failure(c)))]
                    /\ UNCHANGED << ens, remote_dir_cache, remoteFiles >>
               ELSE IF ~remote_file(s, c).ok
               THEN /\ call' = [call EXCEPT ![s] = NewCall(s, c, 0)]
                    /\ ret' = [ret EXCEPT ![s] =
                                 Append(@, remote_file(s, c))]
                    /\ UNCHANGED << ens, remote_dir_cache, remoteFiles >>
               ELSE IF uses_cache(c) /\ dir \in remote_dir_cache[s]
               THEN /\ call' = [call EXCEPT ![s] = NewCall(s, c, 0)]
                    /\ ens' = ens
                    /\ walk_done(s, c, dir, TRUE)
               ELSE IF run = EnsOff
               THEN /\ call' = [call EXCEPT ![s] = NewCall(s, c, stats)]
                    /\ ens' = ens
                    /\ walk_done(s, c, dir, TRUE)
               ELSE /\ call' = [call EXCEPT ![s] = NewCall(s, c, stats)]
                    /\ ens' = [ens EXCEPT ![s] = run]
                    /\ UNCHANGED << remote_dir_cache, remoteFiles, ret >>

\* one mkdir of the walk and the stats that follow it (a prefix longer
\* than the one just made cannot be a directory before it is made)
SessMkdir(s) ==
    /\ ens[s].phase = "mkdir"
    /\ UNCHANGED << outsideSession, remote_cwd >>
    /\ LET outcome == mkdir_step(s, FALSE)
           dir == ens[s].path
           run == stat_run(s, dir, ens[s].k + 1)
       IN  /\ remoteDirs' = IF outcome = "err" THEN remoteDirs
                            ELSE remoteDirs \cup {working_path(s)}
           /\ IF outcome = "next" /\ run # EnsOff
              THEN /\ ens' = [ens EXCEPT ![s] = run]
                   /\ call' = [call EXCEPT ![s][Len(call[s])].reqs =
                                 @ + 1 + run.k - ens[s].k]
                   /\ UNCHANGED << remote_dir_cache, remoteFiles, ret >>
              ELSE /\ ens' = [ens EXCEPT ![s] = EnsOff]
                   /\ call' = [call EXCEPT ![s][Len(call[s])].reqs =
                                 IF outcome = "err" THEN @ + 1
                                 ELSE @ + 1 + Len(ens_full(s, dir))
                                        - ens[s].k]
                   /\ walk_done(s, call[s][Len(call[s])], dir,
                                outcome # "err")

\* cd_remote: realpath, then stat, then set_remote_cwd; the server may
\* refuse the realpath of a path that does not exist
SessCd(s) ==
    /\ CanCall(s)
    /\ \E c \in { d \in SessionCalls : d.fn = "cd_remote" },
          realpath_fails \in BOOLEAN :
        LET target == server_realpath(
                          canonicalize_remote(remote_cwd[s], c.path))
        IN  /\ realpath_fails => target \notin remoteDirs \cup remoteFiles
            /\ call' = [call EXCEPT ![s] =
                          NewCall(s, c, IF realpath_fails THEN 1 ELSE 2)]
            /\ IF ~realpath_fails /\ stat_is_dir(target)
               THEN /\ remote_cwd' = [remote_cwd EXCEPT ![s] = target]
                    /\ ret' = [ret EXCEPT ![s] = Append(@, Ok(target))]
               ELSE /\ remote_cwd' = remote_cwd
                    /\ ret' = [ret EXCEPT ![s] = Append(@, Err("Cannot cd"))]
    /\ UNCHANGED << outsideSession, remote_dir_cache, ens, remoteDirs,
                    remoteFiles >>

\* set_remote_cwd: the public setter, no request to the server
SessSetCwd(s) ==
    /\ CanCall(s)
    /\ \E c \in { d \in SessionCalls : d.fn = "set_remote_cwd" } :
        /\ call' = [call EXCEPT ![s] = NewCall(s, c, 0)]
        /\ remote_cwd' = [remote_cwd EXCEPT ![s] = c.path]
        /\ ret' = [ret EXCEPT ![s] = Append(@, Ok(<<>>))]
    /\ UNCHANGED << outsideSession, remote_dir_cache, ens, remoteDirs,
                    remoteFiles >>

\* rmrf_remote: a file is unlinked, a directory is emptied and removed;
\* readdir(..).expect(..) panics when the path is neither
SessRmrf(s) ==
    /\ CanCall(s)
    /\ \E c \in { d \in SessionCalls : d.fn = "rmrf_remote" } :
        LET target == canonicalize_remote(remote_cwd[s], c.path)
        IN  /\ call' = [call EXCEPT ![s] = NewCall(s, c, 1)]
            /\ IF target \in remoteFiles
               THEN /\ remoteFiles' = remoteFiles \ {target}
                    /\ remoteDirs' = remoteDirs
                    /\ ret' = [ret EXCEPT ![s] = Append(@, Ok(<<>>))]
               ELSE IF target \in remoteDirs
               THEN /\ remoteFiles' =
                         { f \in remoteFiles : ~IsPrefixSeq(target, f) }
                    /\ remoteDirs' =
                         { d \in remoteDirs : ~IsPrefixSeq(target, d) }
                    /\ ret' = [ret EXCEPT ![s] = Append(@, Ok(<<>>))]
               ELSE /\ UNCHANGED << remoteFiles, remoteDirs >>
                    /\ ret' = [ret EXCEPT ![s] = Append(@, Err("panic"))]
    /\ UNCHANGED << outsideSession, remote_cwd, remote_dir_cache, ens >>

SessionNext ==
    \/ \E s \in Sessions : SessWalk(s)
    \/ \E s \in Sessions : SessMkdir(s)
    \/ \E s \in Sessions : SessCd(s)
    \/ \E s \in Sessions : SessSetCwd(s)
    \/ \E s \in Sessions : SessRmrf(s)

SessionSpec == SessionInit /\ [][SessionNext]_vars

\* scheduling: a thread that can take its next step eventually takes it
\* (the watcher returning from wx.main(), the main thread's recv loop)
LiveSpec ==
    /\ Spec
    /\ WF_vars(WatcherQuit)
    /\ WF_vars(MainForward)
    /\ WF_vars(MainExit)

\* the dispatcher thread and every worker thread are scheduled: a thread
\* that can take its next step (every SFTP call returns, a free mutex is
\* handed to the thread that waits for it) takes it
BatchLiveSpec ==
    /\ Spec
    /\ WF_vars(ActorReceive \/ ActorLockFirst \/ ActorEnsureStart
                  \/ ActorEnsureStat \/ ActorEnsureMkdir \/ ActorSplit
                  \/ ActorSpawn \/ ActorJoin)
    /\ \A i \in 1..MaxConn :
          WF_vars(IF i \in Sessions
                  THEN WorkerLock(i) \/ WorkerSync(i) \/ WorkerEnsureStat(i)
                         \/ WorkerEnsureMkdir(i) \/ WorkerOpen(i)
                         \/ WorkerIncBarPos(i)
                  ELSE FALSE)

\* ==================================================== derived notions
\* has_file_remote as session s evaluates it
has_file_remote(s, path) == canonicalize_remote(remote_cwd[s], path) \in remoteFiles

\* number of the batch in files_to_upload: the last non-empty one received
lastBatch ==
    LET ks == { k \in 1..Len(received) : Len(received[k]) > 0 }
    IN  IF ks = {} THEN 0 ELSE CHOOSE k \in ks : \A j \in ks : j <= k

ActorBusy == actorPc \in {"lock", "precreate", "ensure", "spawn", "join"}

\* the dispatcher is through with the batch in files_to_upload
BatchJoined == actorPc = "recv" /\ Len(files_to_upload) > 0

\* file f of batch b was uploaded: some worker's sync of it returned Ok
UploadedIn(b, f) ==
    \E i \in Sessions :
        /\ workers[i].batch = b
        /\ \E k \in 1..Len(workers[i].results) :
            workers[i].chunk[k] = f /\ workers[i].results[k] = "Ok"

\* a failure line of batch b that names file f
FailureLogged(b, f) ==
    \E l \in log :
        /\ l.batch = b
        /\ l.what = f
        /\ l.kind \in {"upload_error", "translate_error"}

\* ================================================================ claims

\* C1: no pre-creation and no worker of batch k+1 starts until every worker
\* spawned for batch k has finished and been joined: a running worker always
\* belongs to the batch the dispatcher is on and the dispatcher is in its
\* spawn or join phase (or dead); while the dispatcher works on a batch every
\* worker of an earlier batch has ended and was joined.
C1_BatchesSerialised ==
    /\ \A i \in Sessions :
        Running(i) =>
            /\ workers[i].batch = batchNo
            /\ actorPc \in {"spawn", "join", "panicked"}
    /\ ActorBusy =>
        \A i \in Sessions :
            (workers[i].pc # "idle" /\ workers[i].batch < batchNo) =>
                /\ ~Running(i)
                /\ <<workers[i].batch, i>> \in joinedH

C1_Witness ==
    /\ actorPc = "ensure"
    /\ batchNo = 2
    /\ \E i \in Sessions :
        /\ workers[i].batch = 1
        /\ workers[i].pc = "done"
        /\ Len(workers[i].chunk) > 0

\* C2: within a batch, pre-creation is complete (no directory left, no walk
\* of the dispatcher under way) and the lock of the pre-creation session is
\* released before any worker of that batch exists.
C2_PrecreateBeforeUpload ==
    \A i \in Sessions :
        (workers[i].pc # "idle" /\ workers[i].batch = batchNo) =>
            /\ remote_paths = {}
            /\ lockHolder[1] # "actor"
            /\ actorPc \notin {"lock", "precreate", "ensure"}
            /\ (ens[1].phase # "off" => lockHolder[1] = "worker")

C2_Witness ==
    \E i \in Sessions :
        /\ workers[i].pc = "open"
        /\ workers[i].batch = batchNo
        /\ \E m \in mkdirLog : m.by = "actor" /\ m.batch = batchNo

\* C3 (as claimed): every mkdir request comes from the pre-creation session
\* during pre-creation, no worker issues one, and no two sessions are about
\* to create the same directory at the same time.
C3_OnlyPrecreationMkdirs ==
    /\ \A m \in mkdirLog : m.by = "actor"
    /\ \A s, t \in Sessions :
        (s # t /\ ens[s].phase = "mkdir" /\ ens[t].phase = "mkdir") =>
            working_path(s) # working_path(t)

\* C4: once a batch in which no operation failed is joined, every file of
\* it is a regular file on the remote at its translated path.
C4_SuccessfulBatchUploaded ==
    (BatchJoined /\ ~batchFailed) =>
        \A f \in SeqToSet(files_to_upload) :
            /\ translate(1, f).ok
            /\ has_file_remote(1, translate(1, f).val)

C4_Witness ==
    /\ BatchJoined
    /\ ~batchFailed
    /\ connection_count = 2
    /\ Len(files_to_upload) = 1
    /\ remoteFiles # {}

\* C5 (as claimed): when a batch is joined, every file of it was uploaded or
\* has a failure line that names it.
C5_NoFileSilentlyDropped ==
    BatchJoined =>
        \A f \in SeqToSet(files_to_upload) :
            UploadedIn(lastBatch, f) \/ FailureLogged(lastBatch, f)

\* C6 (as claimed): when a worker has panicked and its join has returned,
\* the dispatcher thread has not panicked.
C6_WorkerPanicCaught ==
    \A i \in Sessions :
        (workers[i].pc = "panicked" /\ <<workers[i].batch, i>> \in joinedH) =>
            actorPc # "panicked"

\* the three kinds of failure inside a batch that C7 speaks of
PerFileError ==
    \E i \in Sessions :
        \E k \in 1..Len(workers[i].results) : workers[i].results[k] = "Err"

PrecreationFailed == \E l \in log : l.kind = "mkdir_error"

WorkerPanickedUnderLock ==
    \E i \in Sessions : workers[i].pc = "panicked" /\ poisoned[i]

\* C7 (as claimed): after a per-file error, a failed pre-creation or a
\* panic of a worker that held its session, the dispatcher is still running
\* and every session's mutex can still be locked for the next batch.
C7_PipelineSurvivesFailure ==
    (PerFileError \/ PrecreationFailed \/ WorkerPanickedUnderLock) =>
        /\ actorPc # "panicked"
        /\ \A i \in Sessions : ~poisoned[i]

\* C8: a worker attempts the files of its chunk strictly in chunk order; an
\* Err of one file is logged with the file's name and the worker goes on:
\* a worker that ended without panicking attempted its whole chunk.
C8_ChunkOrderErrorsSkipped ==
    \A i \in Sessions :
        workers[i].pc # "idle" =>
            /\ IsPrefixSeq(workers[i].attempted, workers[i].chunk)
            /\ Len(workers[i].results) <= Len(workers[i].attempted)
            /\ Len(workers[i].attempted) <= Len(workers[i].results) + 1
            /\ workers[i].pc = "done" =>
                 /\ workers[i].attempted = workers[i].chunk
                 /\ Len(workers[i].results) = Len(workers[i].chunk)
            /\ \A k \in 1..Len(workers[i].results) :
                 workers[i].results[k] = "Err" =>
                    FailureLogged(workers[i].batch, workers[i].chunk[k])

C8_Witness ==
    \E i \in Sessions :
        /\ workers[i].pc = "done"
        /\ Len(workers[i].chunk) = 2
        /\ workers[i].results = <<"Err", "Ok">>

\* C9 (as claimed): the process has not exited while a batch the watcher
\* emitted is still unprocessed or a worker is still running.
C9_ExitAfterDrain ==
    mainPc = "exited" =>
        /\ Len(msg_rx) = 0
        /\ ~ActorBusy
        /\ \A i \in Sessions : ~Running(i)

\* C10: while the pipeline runs (process alive, dispatcher receiving), the
\* batches the dispatcher received followed by those queued towards it are
\* exactly the batches the watcher emitted, in emission order; what the
\* dispatcher received is always a prefix of what was emitted.
C10_BatchesFifoExactlyOnce ==
    /\ IsPrefixSeq(received, emitted)
    /\ (Alive /\ ActorReceiverAlive) =>
          emitted = received \o msg_rx \o rx_files_to_upload

C10_Witness ==
    /\ Len(received) = 2
    /\ received[1] # received[2]
    /\ actorPc = "join"
    /\ Len(received[1]) > 0

\* C11: once the handler has seen the interrupt the watcher stops, which
\* drops every sender of the batch channel, and from then on the receive
\* loop of main drains the channel and terminates.
C11_InterruptEndsReceiveLoop ==
    /\ (watcher = "quitting") ~> SendersGone
    /\ (watcher = "stopped" /\ mainPc = "recv") ~> (mainPc = "exited")

C11_Witness ==
    /\ watcher = "stopped"
    /\ mainPc = "exited"
    /\ actorPc # "unborn"
    /\ Len(emitted) = 2

\* the threads that are between taking and dropping a session's guard
ActorPrecreating == actorPc \in {"precreate", "ensure"}

WorkerInChunk(i) == workers[i].pc \in {"file", "ensure", "open", "inc_bar_pos"}

\* C12: a session's mutex has one holder at most (the pre-creating
\* dispatcher on session 1 or the worker of the session, never both), and
\* a worker that has started its chunk and not finished it holds the mutex
\* of its session, also between two files.
C12_SessionMutexHeldForChunk ==
    /\ 1 \in Sessions =>
          /\ ~(ActorPrecreating /\ WorkerInChunk(1))
          /\ ActorPrecreating <=> lockHolder[1] = "actor"
    /\ \A i \in Sessions : WorkerInChunk(i) <=> lockHolder[i] = "worker"

C12_Witness ==
    \E i \in Sessions :
        /\ workers[i].pc = "file"
        /\ workers[i].pos = 2
        /\ lockHolder[i] = "worker"

RECURSIVE Concat(_)
Concat(cs) == IF Len(cs) = 0 THEN <<>> ELSE Head(cs) \o Concat(Tail(cs))

\* C13: the chunks of split_to_n_chunks, concatenated in chunk order, are
\* the input list: nothing lost, nothing duplicated, order kept.
C13_SplitPartitionsInput ==
    Returned => Concat(ret[1]) = call.array

C13_Witness ==
    /\ Returned
    /\ call.array = [j \in 1..10 |-> j]
    /\ call.n = 3
    /\ ret[1] = << <<1, 2, 3, 4>>, <<5, 6, 7>>, <<8, 9, 10>> >>

ChunkSizes(cs) == [c \in 1..Len(cs) |-> Len(cs[c])]

RECURSIVE SumTo(_, _)
SumTo(f, k) == IF k = 0 THEN 0 ELSE f[k] + SumTo(f, k - 1)

\* C14: split_to_n_chunks returns n chunks; chunk c has
\* ceil(remaining / remaining_chunks) elements, so the sizes never grow
\* from one chunk to the next and differ by one at most.
C14_SplitChunkSizes ==
    Returned =>
        LET sz == ChunkSizes(ret[1])
        IN  /\ Len(ret[1]) = call.n
            /\ \A c \in 1..Len(ret[1]) :
                  sz[c] = CeilDiv(Len(call.array) - SumTo(sz, c - 1),
                                  call.n - c + 1)
            /\ \A c, d \in 1..Len(ret[1]) :
                  /\ c <= d => sz[c] >= sz[d]
                  /\ sz[c] - sz[d] <= 1

C14_Witness ==
    /\ Returned
    /\ Len(call.array) = 4
    /\ call.n = 6
    /\ ChunkSizes(ret[1]) = <<1, 1, 1, 1, 0, 0>>

\* the attempts at file f in batch b: <<session, position in its chunk>>
AttemptsOf(b, f) ==
    { <<i, k>> \in Sessions \X (1..MaxFiles + 1) :
        /\ workers[i].batch = b
        /\ k <= Len(workers[i].attempted)
        /\ workers[i].attempted[k] = f }

\* the worker on session i works on chunk i of the batch and no other
ChunkOnOwnSession ==
    \A i \in Sessions :
        (workers[i].batch = batchNo /\ Len(chunks) >= i) =>
            workers[i].chunk = chunks[i]

AttemptedAtMostOnce ==
    \A f \in Files : Cardinality(AttemptsOf(batchNo, f)) <= 1

\* C15 (as claimed): the worker on session i has chunk i, and when the
\* batch is joined each of its files was attempted exactly once over all
\* the workers.
C15_EachFileAttemptedOnce ==
    /\ ChunkOnOwnSession
    /\ AttemptedAtMostOnce
    /\ BatchJoined =>
          \A f \in SeqToSet(files_to_upload) :
              Cardinality(AttemptsOf(lastBatch, f)) = 1

\* { parent(translate(f)) | f in batch b }, translate as session 1 computes it
ParentDirs(b) ==
    IF b = 0 THEN {}
    ELSE { path_parent(translate(1, f).val) :
             f \in { g \in SeqToSet(received[b]) : translate(1, g).ok } }

ActorMkdirs(b) == { m \in mkdirLog : m.by = "actor" /\ m.batch = b }

PrecreationOver == actorPc \in {"spawn", "join"} \/ BatchJoined

\* C16 (as claimed): the directories the dispatcher asks the server to
\* create while pre-creating batch b are the parents of the batch's remote
\* paths: none outside that set, and none of the set left out.
C16_PrecreatedExactlyParents ==
    /\ \A m \in mkdirLog : m.by = "actor" => m.path \in ParentDirs(m.batch)
    /\ PrecreationOver =>
          \A d \in ParentDirs(lastBatch) :
              \E m \in ActorMkdirs(lastBatch) : m.path = d

\* C16 (amended): Step 3.2 hands each member of the set of parents to
\* ensure_dir_remote_cached once and hands it nothing else, and when the
\* pre-creation is over it has handed over the whole set; every mkdir the
\* dispatcher sends is for a member of the set or for an ancestor of one.
C16_EnsureCallsExactlyParents ==
    /\ \A d \in BagToSet(ensure_calls) :
          d \in ParentDirs(lastBatch) /\ CopiesIn(d, ensure_calls) = 1
    /\ PrecreationOver => BagToSet(ensure_calls) = ParentDirs(lastBatch)
    /\ \A m \in mkdirLog :
          m.by = "actor" =>
              \E d \in ParentDirs(m.batch) : IsPrefixSeq(m.path, d)

C16_Witness ==
    /\ actorPc = "spawn"
    /\ Cardinality(BagToSet(ensure_calls)) = 2
    /\ Cardinality(ActorMkdirs(lastBatch)) = 2

\* the directories whose pre-creation failed (and was logged) in batch b
FailedPrecreations(b) ==
    { l.what : l \in { m \in log : m.kind = "mkdir_error" /\ m.batch = b } }

\* C17 (as claimed): once the pre-creation of directory d has failed in a
\* batch, every upload of that batch into d that a worker has finished has
\* failed and has a failure line naming its file.
C17_FailedPrecreationFailsUploads ==
    \A i \in Sessions :
        \A k \in 1..Len(workers[i].results) :
            path_parent(translate(i, workers[i].chunk[k]).val)
                    \in FailedPrecreations(workers[i].batch) =>
                /\ workers[i].results[k] = "Err"
                /\ FailureLogged(workers[i].batch, workers[i].chunk[k])

\* C18: the step in which run_self receives an empty batch changes nothing
\* but the queue and the receive history: the dispatcher stays in its
\* receive loop (also with the progress sink gone, where any send to it
\* would panic), no mutex is taken, no request reaches the server, no
\* worker is spawned, no line is logged and no session state changes.
C18_EmptyBatchDropped ==
    [][ (/\ actorPc = "recv"
         /\ received' # received
         /\ Len(received'[Len(received')]) = 0)
        => UNCHANGED << actorPc, files_to_upload, remote_paths, chunks, tasks,
                        joinIdx, joinedH, ensure_calls, sessionVars, workers,
                        serverVars, log, batchFailed >> ]_vars

C18_Witness ==
    /\ Len(received) = 2
    /\ Len(received[1]) > 0
    /\ Len(received[2]) = 0
    /\ actorPc = "recv"
    /\ ~sinkAlive

\* C19 (as claimed): no path of an emitted batch, from the handler or from
\* the initial scan, contains an ignore_includes pattern or ends with an
\* ignore_ends pattern.
C19_FilterSound ==
    Returned =>
        \A p \in ret[1] :
            ~ignored_by(p, call.ignore_includes, call.ignore_ends)

\* the same for the batches of the handler alone
HandlerFilterSound ==
    (Returned /\ call.fn = "watch") =>
        \A p \in ret[1] :
            ~ignored_by(p, call.ignore_includes, call.ignore_ends)

\* C20 (as claimed): every path of an emitted batch is absolute, and a
\* path the handler emits is a regular file in the file system the handler
\* sees (the initial scan keeps entries whose file type is "file").
C20_EmittedPathsAreFiles ==
    Returned =>
        \A p \in ret[1] :
            /\ p[1] = "/"
            /\ call.fn = "watch" => call.fs[p] = "file"

\* C21: a path is in the handler's batch only if an event carrying it has
\* an event kind, every kind it has is create, modify-data, modify-name or
\* generic modify, and it has no keyboard, signal or process tag
C21_OnlyAcceptedKindsContribute ==
    (Returned /\ call.fn = "watch") =>
        \A p \in ret[1] : \E k \in 1..Len(call.events) :
            LET ev == call.events[k]
                kinds == { ev[j].kind :
                             j \in { i \in 1..Len(ev) :
                                       ev[i].tag = "FileEventKind" } }
            IN  /\ \E j \in 1..Len(ev) : ev[j].tag = "Path" /\ ev[j].path = p
                /\ kinds # {}
                /\ kinds \subseteq
                       {"Create", "ModifyData", "ModifyName", "ModifyAny"}
                /\ \A j \in 1..Len(ev) :
                       ev[j].tag \notin {"Keyboard", "Signal", "Process"}

\* C22: the handler's batch is a set of paths, and it holds every path
\* carried by every event of the window that the filter accepted
C22_BatchHoldsEveryAcceptedPath ==
    (Returned /\ call.fn = "watch") =>
        \A k \in 1..Len(call.events) :
            LET ev == call.events[k]
            IN  match_event_by_tags(ev, call.ignore_includes,
                                    call.ignore_ends, call.fs) # <<>>
                    => \A j \in 1..Len(ev) :
                           ev[j].tag = "Path" => ev[j].path \in ret[1]

C24_CachedEnsureSticks ==
    \A s \in Sessions :
        \A j \in 1..Len(ret[s]) :
            (call[s][j].fn = "ensure_dir_remote_cached" /\ ret[s][j].ok)
            => /\ call[s][j].path \in remote_dir_cache[s]
               /\ \A k \in (j + 1)..Len(ret[s]) :
                     ( /\ call[s][k].fn = "ensure_dir_remote_cached"
                       /\ call[s][k].path = call[s][j].path )
                     => ret[s][k].ok /\ call[s][k].reqs = 0

C24_Witness ==
    \E s \in Sessions :
        /\ Len(ret[s]) = 3
        /\ call[s][1].fn = "ensure_dir_remote_cached"
        /\ call[s][1].reqs > 1
        /\ ret[s][1].ok
        /\ call[s][2].fn = "rmrf_remote"
        /\ call[s][3] = [call[s][1] EXCEPT !.reqs = 0]
        /\ ret[s][3].ok

\* C25 (as claimed): every entry of a session's cache, resolved against
\* the session's virtual cwd, is a directory on the server
C25_CacheEntriesExist ==
    \A s \in Sessions :
        \A d \in remote_dir_cache[s] :
            canonicalize_remote(remote_cwd[s], d) \in remoteDirs

\* C26 (as claimed): when the server refuses a mkdir of the walk because
\* the directory exists already (another session made it after this
\* session's stat), the call does not return an error
C26_AlreadyExistsTolerated ==
    [][\A s \in Sessions :
          ( /\ ens[s].phase = "mkdir"
            /\ working_path(s) \in remoteDirs
            /\ Len(ret'[s]) > Len(ret[s]) )
          => ret'[s][Len(ret'[s])].ok]_vars

\* C27 (as claimed): the virtual cwd of a session is the directory the
\* session was connected in or one that a cd_remote validated and returned
C27_CwdValidated ==
    \A s \in Sessions :
        \/ remote_cwd[s] = InitialCwd
        \/ \E k \in 1..Len(ret[s]) :
              /\ call[s][k].fn = "cd_remote"
              /\ ret[s][k] = Ok(remote_cwd[s])

\* C28: cd_remote(p) succeeds exactly when the realpath of p (joined onto
\* the cwd when relative) is a directory on the server, and then returns
\* it and makes it the virtual cwd; otherwise it returns an error and the
\* virtual cwd is as before. So a cd("..") that follows a successful cd
\* into a subdirectory returns to the cwd the first cd started from.
C28_CdRemote ==
    /\ [][\A s \in Sessions :
            ( /\ Len(ret'[s]) > Len(ret[s])
              /\ call'[s][Len(ret'[s])].fn = "cd_remote" )
            => LET c == call'[s][Len(ret'[s])]
                   r == ret'[s][Len(ret'[s])]
                   target == server_realpath(
                                 canonicalize_remote(c.cwd, c.path))
               IN  /\ c.cwd = remote_cwd[s]
                   /\ r.ok <=> target \in remoteDirs
                   /\ r.ok => r.val = target /\ remote_cwd'[s] = target
                   /\ ~r.ok => remote_cwd'[s] = remote_cwd[s]]_vars
    /\ [](\A s \in Sessions :
            \A k \in 1..(Len(ret[s]) - 1) :
               ( /\ call[s][k].fn = "cd_remote"
                 /\ call[s][k].path = <<"d">>
                 /\ ret[s][k].ok
                 /\ call[s][k + 1].fn = "cd_remote"
                 /\ call[s][k + 1].path = <<"..">> )
               => ret[s][k + 1] = Ok(call[s][k].cwd))

C28_Witness ==
    \E s \in Sessions :
        /\ Len(ret[s]) = 3
        /\ call[s][2].fn = "cd_remote"
        /\ call[s][2].path = <<"d">>
        /\ ret[s][2].ok
        /\ call[s][3].fn = "cd_remote"
        /\ call[s][3].path = <<"..">>
        /\ ret[s][3].ok
        /\ remote_cwd[s] = call[s][2].cwd

\* C29: for an absolute local path f under the local base b (the process
\* cwd when b is absent, else b made absolute), local_to_remote_path
\* returns r' joined with f stripped of b, where r' is the virtual cwd
\* when the remote base r is absent, r when r is absolute, and the virtual
\* cwd joined with r when r is relative
C29_TranslationFormula ==
    Returned =>
        LET f == call.local_path
            b == IF call.local_base = <<>> THEN call.pcwd
                 ELSE IF call.local_base[1][1] = "/"
                 THEN call.local_base[1]
                 ELSE call.pcwd \o call.local_base[1]
            r1 == IF call.remote_base = <<>> THEN call.cwd
                  ELSE IF call.remote_base[1][1] = "/"
                  THEN call.remote_base[1]
                  ELSE call.cwd \o call.remote_base[1]
        IN  ( /\ f[1] = "/"
              /\ b \in LocalDirs
              /\ Len(b) <= Len(f)
              /\ \A k \in 1..Len(b) : f[k] = b[k] )
            => /\ ret[1].ok
               /\ ret[1].val = r1 \o [k \in 1..(Len(f) - Len(b)) |->
                                        f[Len(b) + k]]

C29_Witness ==
    /\ Returned
    /\ call.local_base = << <<"w">> >>
    /\ call.pcwd = <<"/">>
    /\ call.remote_base = <<TargetDir>>
    /\ call.local_path = LocalBase \o <<"a", "z">>
    /\ ret[1] = Ok(call.cwd \o TargetDir \o <<"a", "z">>)

SessionPool == { i \in DOMAIN remote_cwd : remote_cwd[i] # None }

\* UploadActor::new has returned and the dispatcher thread exists
StartedUp == actorPc # "unborn"

\* C31: once start-up is over the session pool holds exactly
\* connection_count sessions and connection_count is at least 1 (a count of
\* 0 never gets past start-up); no step changes the pool afterwards; every
\* chunk index that sharding produced, and every index a worker was spawned
\* for, addresses a session of the pool.
C31_PoolFixedAndAddressed ==
    /\ [](StartedUp =>
            /\ connection_count >= 1
            /\ SessionPool = 1..connection_count
            /\ DOMAIN chunks \subseteq SessionPool
            /\ DOMAIN tasks \subseteq SessionPool
            /\ \A i \in DOMAIN workers : workers[i].pc # "idle" => i \in SessionPool)
    /\ [](connection_count = 0 => ~StartedUp /\ chunks = <<>>)
    /\ [][StartedUp => SessionPool' = SessionPool]_vars

C31_Witness ==
    /\ connection_count = 2
    /\ SessionPool = {1, 2}
    /\ Len(chunks) = 2
    /\ workers[2].pc = "done"

\* main unwound out of UploadActorHandle::new
StartupPanicked == \E l \in log : l.kind = "startup_panic"

\* something of a batch has been handled by the upload side
BatchTouched ==
    \/ Len(msg_rx) > 0
    \/ Len(received) > 0
    \/ mkdirLog # {}
    \/ remoteFiles # {}
    \/ \E i \in DOMAIN workers : workers[i].pc # "idle"
    \/ \E i \in DOMAIN lockHolder : lockHolder[i] # "free"
    \/ \E i \in DOMAIN ens : ens[i] # EnsOff

\* C32: nothing of a batch is forwarded, pre-created or dispatched unless
\* all connection_count sessions have connected; when the connect of one
\* session fails, the process ends (main has exited and no step follows)
\* and no batch has been touched.
C32_AllConnectedOrTerminated ==
    /\ []((StartedUp \/ BatchTouched) =>
            SessionPool = Sessions /\ ~StartupPanicked)
    /\ [](StartupPanicked =>
            mainPc = "exited" /\ ~StartedUp /\ ~BatchTouched)
    /\ [][~StartupPanicked]_vars

C32_Witness ==
    /\ connection_count = 2
    /\ \E l \in log : l.kind = "startup_panic" /\ l.what = {2}
    /\ Len(emitted) = 2
    /\ Len(rx_files_to_upload) = 2

\* C33 (as claimed): once the progress sink is gone, neither the dispatcher
\* nor a worker has panicked: a failed send to the sink is only logged.
C33_SinkFailureOnlyLogged ==
    ~sinkAlive =>
        /\ actorPc # "panicked"
        /\ \A i \in Sessions : workers[i].pc # "panicked"

\* the position of the first ':' of s, 0 when there is none
FirstColon(s) ==
    IF \E k \in 1..Len(s) : s[k] = ":"
    THEN CHOOSE k \in 1..Len(s) : s[k] = ":" /\ \A j \in 1..(k - 1) : s[j] # ":"
    ELSE 0

\* C34 (as claimed): the argument is split at its first ':' only: src is the
\* trimmed text before it and dst the trimmed text of everything after it;
\* without a ':' a relative src is also the dst and an absolute src is
\* rejected.
C34_PairSplitAtFirstColon ==
    Returned =>
        LET s == call.arg
            k == FirstColon(s)
            src == str_trim(IF k = 0 THEN s ELSE SubSeq(s, 1, k - 1))
        IN  IF k > 0
            THEN ret[1] = Ok([source |-> src,
                              target |-> str_trim(SubSeq(s, k + 1, Len(s)))])
            ELSE IF is_relative(src)
            THEN ret[1] = Ok([source |-> src, target |-> src])
            ELSE ~ret[1].ok

\* session s has just returned from its latest call, which was fn
JustReturned(s, fn) ==
    /\ Len(ret'[s]) = Len(ret[s]) + 1
    /\ call'[s][Len(ret'[s])].fn = fn

\* C35: when ensure_dir_remote(p) returns Ok, every prefix of the walked
\* path (p itself when absolute, the virtual cwd joined with p otherwise) is
\* a directory on the server at that moment; a walk turns to mkdir only for
\* a prefix that is not a directory when it is stat'ed, and the prefixes it
\* makes grow from one mkdir to the next.
C35_EnsureMakesEveryPrefix ==
    [][\A s \in Sessions :
        /\ (JustReturned(s, "ensure_dir_remote") /\ ret'[s][Len(ret'[s])].ok) =>
              LET full == ens_full(s, call'[s][Len(ret'[s])].path)
              IN  \A k \in 1..Len(full) : SubSeq(full, 1, k) \in remoteDirs'
        /\ (ens'[s] # ens[s] /\ ens'[s].phase = "mkdir") =>
              LET full == ens_full(s, ens'[s].path)
              IN  /\ SubSeq(full, 1, ens'[s].k) \notin remoteDirs'
                  /\ ens'[s].k <= Len(full)
                  /\ ens[s].phase = "mkdir" =>
                        /\ ens'[s].k > ens[s].k
                        /\ ens'[s].path = ens[s].path
       ]_vars

C35_Witness ==
    \E s \in Sessions :
        /\ Len(ret[s]) = 1
        /\ call[s][1].fn = "ensure_dir_remote"
        /\ call[s][1].path = <<"/", "h", "d", "e">>
        /\ call[s][1].reqs = 5
        /\ ret[s][1].ok
        /\ { <<"/", "h", "d">>, <<"/", "h", "d", "e">> } \subseteq remoteDirs

\* C36: upload_file_explicit runs its steps in the order canonicalize and
\* open of the local file, ensure of the remote parent, open of the remote
\* file, copy, flush, close; it returns Ok when all of them ran and
\* otherwise the error of the step it stopped at, which is the first that
\* failed.  A failure of a local step sends no request and leaves the
\* server and the cache as they were; a failed ensure creates no file; once
\* the remote open has succeeded the file exists.
C36_UploadStepsInOrder ==
    [][\A s \in Sessions :
        JustReturned(s, "upload_file_explicit") =>
          LET c == call'[s][Len(ret'[s])]
              r == ret'[s][Len(ret'[s])]
              last == r.steps[Len(r.steps)]
              file == canonicalize_remote(c.cwd, c.path)
          IN  /\ Len(r.steps) >= 1
              /\ IsPrefixSeq(r.steps, UploadSteps)
              /\ r.ok <=> (r.steps = UploadSteps /\ c.fail = "none")
              /\ (~r.ok /\ last = "canonicalize") => r.err = "LocalPathError"
              /\ (~r.ok /\ last = "open_local") => r.err = "OpenLocalFileError"
              /\ (~r.ok /\ last = "ensure") => r.err = "RemoteMkdirError"
              /\ (~r.ok /\ last = "open_remote") => r.err = "OpenRemoteFileError"
              /\ (~r.ok /\ last \in {"copy", "flush"}) =>
                    r.err = "LocalToRemoteCopyError"
              /\ (~r.ok /\ last = "close") => r.err = "CloseRemoteFileError"
              /\ c.fail \in {"canonicalize", "open_local"} =>
                    /\ ~r.ok /\ last = c.fail
                    /\ c.reqs = 0
                    /\ ens[s] = EnsOff
                    /\ UNCHANGED << remoteDirs, remoteFiles, remote_dir_cache >>
              /\ (c.fail \in {"copy", "flush", "close"} /\ last # c.fail) =>
                    ~r.ok /\ last \in {"ensure", "open_remote"}
              /\ (~r.ok /\ last \in {"ensure", "open_remote"}) =>
                    remoteFiles' = remoteFiles
              /\ (r.ok \/ last \in {"copy", "flush", "close"}) =>
                    /\ file \in remoteFiles'
                    /\ path_parent(file) \in remoteDirs'
      ]_vars

C36_Witness ==
    \E s \in Sessions :
        /\ Len(ret[s]) = 3
        /\ \A k \in 1..3 : call[s][k].fn = "upload_file_explicit"
        /\ call[s][1].fail = "open_local"
        /\ ret[s][1] = Err("OpenLocalFileError") @@
                          [steps |-> <<"canonicalize", "open_local">>]
        /\ call[s][2].fail = "flush"
        /\ ~ret[s][2].ok /\ Len(ret[s][2].steps) = 6
        /\ ret[s][3].ok
        /\ <<"/", "h", "d", "f">> \in remoteFiles

\* C37: while worker i is ensuring or opening for a file f of its chunk, the
\* remote path it computed on session i is the one the dispatcher's session
\* gives for f, so its parent directory is among the directories the
\* dispatcher computed for the batch and handed to the pre-creation; from
\* start-up on all sessions have the same virtual cwd and no step of the
\* pipeline changes it.
C37_WorkerDirWasPrecreated ==
    /\ [](\A i \in Sessions :
            workers[i].pc \in {"ensure", "open"} =>
              LET f == current_file(i)
                  dir == path_parent(workers[i].remote)
              IN  /\ workers[i].batch = batchNo
                  /\ f \in SeqToSet(files_to_upload)
                  /\ translate(1, f).ok
                  /\ workers[i].remote = translate(1, f).val
                  /\ dir \in remote_dirs_of(1, files_to_upload)
                  /\ dir \in BagToSet(ensure_calls)
                  /\ workers[i].pc = "ensure" => ens[i].path = dir)
    /\ [](StartedUp => \A i, j \in Sessions : remote_cwd[i] = remote_cwd[j])
    /\ [][StartedUp => remote_cwd' = remote_cwd]_vars

C37_Witness ==
    /\ connection_count = 2
    /\ Len(files_to_upload) = 2
    /\ workers[2].pc = "ensure"
    /\ workers[2].batch = 2
    /\ path_parent(workers[2].remote) # path_parent(workers[1].remote)
    /\ workers[1].pc = "open"
    /\ BagToSet(ensure_calls) =
          {path_parent(workers[1].remote), path_parent(workers[2].remote)}

\* C38 (as claimed): the dispatcher does not hold the pre-creation session
\* while workers are spawned or joined, a session is only ever held by the
\* dispatcher (session 1, pre-creation) or by its own worker, and while the
\* process lives every worker that was spawned finishes and a dispatcher
\* that took up a batch gets back to its receive loop.
C38_BatchNeverStuck ==
    /\ [](\A i \in Sessions :
            /\ lockHolder[i] = "worker" => Running(i)
            /\ lockHolder[i] = "actor" =>
                  i = 1 /\ ~Running(i) /\ actorPc \notin {"spawn", "join"})
    /\ \A i \in 1..MaxConn :
          (IF i \in Sessions THEN Running(i) ELSE FALSE) ~>
              (IF i \in Sessions
               THEN ~Alive \/ workers[i].pc \in {"done", "panicked"}
               ELSE TRUE)
    /\ ActorBusy ~> (~Alive \/ actorPc = "recv")

\* C39 (as claimed): for an event of an accepted kind that carries more
\* than one path, every path of it that is not a directory and matches no
\* ignore pattern is in the handler's batch, whatever the event's other
\* paths are.
C39_EveryPathOfMultiPathEvent ==
    (Returned /\ call.fn = "watch") =>
        \A k \in 1..Len(call.events) :
            LET ev == call.events[k]
                paths == { ev[j].path :
                             j \in { i \in 1..Len(ev) : ev[i].tag = "Path" } }
            IN  (/\ Cardinality(paths) > 1
                 /\ \E j \in 1..Len(ev) : ev[j].tag = "FileEventKind"
                 /\ \A j \in 1..Len(ev) :
                       /\ ev[j].tag \in {"Source", "FileEventKind", "Path"}
                       /\ ev[j].tag = "FileEventKind" =>
                             ev[j].kind \in {"Create", "ModifyData",
                                             "ModifyName", "ModifyAny"})
                => \A p \in paths :
                       (/\ call.fs[p] # "dir"
                        /\ ~ignored_by(p, call.ignore_includes,
                                       call.ignore_ends))
                       => p \in ret[1]

\* the remote paths session i has to write for its chunk
ChunkTargets(i) ==
    { translate(i, f).val :
        f \in { g \in SeqToSet(workers[i].chunk) : translate(i, g).ok } }

\* C40: two workers that run at the same time belong to the same batch, and
\* neither their chunks nor the remote paths of their chunks have a file in
\* common: no two sessions are ever opening or writing the same remote
\* path at once; the chunks of a batch hold every file at most once.
C40_NoConcurrentWriteOfOnePath ==
    /\ \A i, j \in Sessions :
          (i # j /\ Running(i) /\ Running(j)) =>
            /\ workers[i].batch = workers[j].batch
            /\ SeqToSet(workers[i].chunk) \cap SeqToSet(workers[j].chunk) = {}
            /\ ChunkTargets(i) \cap ChunkTargets(j) = {}
            /\ (workers[i].pc = "open" /\ workers[j].pc = "open") =>
                  workers[i].remote # workers[j].remote
    /\ \A i \in Sessions :
          Running(i) =>
            /\ workers[i].batch = batchNo
            /\ \A a, b \in 1..Len(workers[i].chunk) :
                  a # b => workers[i].chunk[a] # workers[i].chunk[b]

C40_Witness ==
    /\ connection_count = 2
    /\ batchNo = 2
    /\ workers[1].pc = "open"
    /\ workers[2].pc = "open"
    /\ workers[1].remote # workers[2].remote
    /\ workers[1].batch = 2
    /\ workers[2].batch = 2

====
